---- MODULE Spec2Model ----
(***************************************************************************)
(* Verification model of the drum-variation engine:                        *)
(*   - MLProcessor    (feature extraction, mutation, envelope synthesis)   *)
(*   - AudioProcessor (DSP effect library, 8-variation batch)              *)
(*   - useHybridAudioProcessor (React hook orchestrating both)             *)
(*                                                                         *)
(* Numbers.  JavaScript numbers are modelled as fixed-point values with    *)
(* resolution 1/Scale (the integer n stands for n/Scale), rounded towards  *)
(* minus infinity, together with the three non-finite IEEE values NaN,     *)
(* +Infinity and -Infinity.  Sample indices, lengths and counts are plain  *)
(* integers (or NaN, where the code computes them from a NaN).             *)
(* Arrays are functions over 0..length-1, as in the source.                *)
(***************************************************************************)
EXTENDS Integers, Sequences, FiniteSets, TLC

\* ------------------------------------------------------------------ numbers
\* 2^10 steps per unit, so that the quantisation levels of a bit crush of up
\* to 10 bits are exact
Scale == 2 ^ 10

PosInf == 2 ^ 30
NegInf == -(2 ^ 30)
NaN == 2 ^ 30 + 1

IsNaN(x) == x = NaN
IsFinite(x) == x > NegInf /\ x < PosInf

\* JavaScript relational operators: every comparison with NaN is false.
Gt(a, b) == a # NaN /\ b # NaN /\ a > b
Lt(a, b) == a # NaN /\ b # NaN /\ a < b
Ge(a, b) == a # NaN /\ b # NaN /\ a >= b

Sign(x) == IF x > 0 THEN 1 ELSE IF x < 0 THEN -1 ELSE 0

Neg(a) ==
  IF a = NaN THEN NaN
  ELSE IF a = PosInf THEN NegInf
  ELSE IF a = NegInf THEN PosInf
  ELSE -a

Add(a, b) ==
  IF a = NaN \/ b = NaN THEN NaN
  ELSE IF (a = PosInf /\ b = NegInf) \/ (a = NegInf /\ b = PosInf) THEN NaN
  ELSE IF a = PosInf \/ b = PosInf THEN PosInf
  ELSE IF a = NegInf \/ b = NegInf THEN NegInf
  ELSE a + b

Sub(a, b) == Add(a, Neg(b))

\* product of two fixed-point values
Mul(a, b) ==
  IF a = NaN \/ b = NaN THEN NaN
  ELSE IF ~IsFinite(a) \/ ~IsFinite(b)
       THEN (IF a = 0 \/ b = 0 THEN NaN
             ELSE IF Sign(a) * Sign(b) > 0 THEN PosInf ELSE NegInf)
  ELSE (a * b) \div Scale

\* quotient of two fixed-point values (also of two plain integers, as a
\* fixed-point value)
Div(a, b) ==
  IF a = NaN \/ b = NaN THEN NaN
  ELSE IF ~IsFinite(a)
       THEN (IF ~IsFinite(b) THEN NaN
             ELSE IF Sign(a) * (IF b < 0 THEN -1 ELSE 1) > 0 THEN PosInf ELSE NegInf)
  ELSE IF ~IsFinite(b) THEN 0
  ELSE IF b = 0
       THEN (IF a = 0 THEN NaN ELSE IF a > 0 THEN PosInf ELSE NegInf)
  ELSE IF b > 0 THEN (a * Scale) \div b
  ELSE ((-a) * Scale) \div (-b)

\* fixed-point value times the decimal literal num/den of the source
MulC(a, num, den) ==
  IF a = NaN THEN NaN
  ELSE IF ~IsFinite(a) THEN (IF num = 0 THEN NaN ELSE IF num > 0 THEN a ELSE Neg(a))
  ELSE (a * num) \div den

\* fixed-point value times / divided by a plain integer (a length, a count)
MulI(a, n) ==
  IF a = NaN \/ n = NaN THEN NaN
  ELSE IF ~IsFinite(a) THEN (IF n = 0 THEN NaN ELSE IF n > 0 THEN a ELSE Neg(a))
  ELSE a * n

\* plain integer as a fixed-point value
Num(n) == IF IsFinite(n) THEN n * Scale ELSE n

\* Math.floor of a fixed-point value: a plain integer (or the non-finite value)
Floor(a) == IF IsFinite(a) THEN a \div Scale ELSE a

\* Math.abs, Math.max, Math.min
Abs(a) == IF a = NaN THEN NaN ELSE IF a = NegInf THEN PosInf ELSE IF a < 0 THEN -a ELSE a
Max(a, b) == IF a = NaN \/ b = NaN THEN NaN ELSE IF a >= b THEN a ELSE b
Min(a, b) == IF a = NaN \/ b = NaN THEN NaN ELSE IF a <= b THEN a ELSE b

\* Math.floor(length * num/den) for a plain length
FloorFrac(n, num, den) == (n * num) \div den

\* sum of f[lo..hi]; integer addition is associative, and the non-finite
\* cases of Add do not depend on the order either, so the sum is split in
\* halves instead of being accumulated left to right
RECURSIVE SumRange(_, _, _)
SumRange(f, lo, hi) ==
  IF lo > hi THEN 0
  ELSE IF lo = hi THEN f[lo]
  ELSE LET mid == (lo + hi) \div 2
       IN Add(SumRange(f, lo, mid), SumRange(f, mid + 1, hi))

\* Math.max / Math.min folded over f[lo..hi], starting from init
RECURSIVE MaxRange(_, _, _, _)
MaxRange(f, lo, hi, init) ==
  IF lo > hi THEN init
  ELSE IF lo = hi THEN Max(init, f[lo])
  ELSE LET mid == (lo + hi) \div 2
       IN Max(MaxRange(f, lo, mid, init), MaxRange(f, mid + 1, hi, init))

RECURSIVE MinRange(_, _, _, _)
MinRange(f, lo, hi, init) ==
  IF lo > hi THEN init
  ELSE IF lo = hi THEN Min(init, f[lo])
  ELSE LET mid == (lo + hi) \div 2
       IN Min(MinRange(f, lo, mid, init), MinRange(f, mid + 1, hi, init))

SetMin(S) == CHOOSE x \in S : \A y \in S : x <= y

\* ------------------------------------------------------------------ buffers
\* AudioBuffer: numberOfChannels, length, sampleRate, the channel arrays and
\* the derived duration = length / sampleRate
AudioBuffer(channels, len, rate, chans) ==
  [numberOfChannels |-> channels, length |-> len, sampleRate |-> rate,
   duration |-> Div(len, rate), data |-> chans]

getChannelData(buffer, channel) == buffer.data[channel]

\* --------------------------------------------------------- MLProcessor
\* findSignificantPeaks: the scan `for (i = windowSize; i < length - windowSize; i++)`
\* accepts the first index that passes both tests, then continues at
\* i + windowSize + 1; it is computed here from the set of indices that pass
\* the tests, taking the smallest one not skipped, which visits the same
\* indices in the same order.
peakWindowSize(sampleRate) == sampleRate \div 100

peakMaxValue(data, len) ==
  MaxRange([i \in 0..(len - 1) |-> Abs(data[i])], 0, len - 1, 0)

\* a peak test that leaves out `currentValue > maxValue * 0.3`
isLocalPeakAnyHeight(data, i, windowSize, maxValue) ==
  LET currentValue == Abs(data[i])
  IN \A j \in (i - windowSize)..(i + windowSize - 1) :
       ~(j # i /\ Gt(Abs(data[j]), currentValue))

isLocalPeak(data, i, windowSize, maxValue) ==
  LET currentValue == Abs(data[i])
  IN /\ Gt(currentValue, MulC(maxValue, 3, 10))
     /\ \A j \in (i - windowSize)..(i + windowSize - 1) :
          ~(j # i /\ Gt(Abs(data[j]), currentValue))

RECURSIVE peakScan(_, _, _, _, _)
peakScan(data, cands, from, windowSize, sampleRate) ==
  LET rest == {c \in cands : c >= from}
  IN IF rest = {} THEN <<>>
     ELSE LET i == SetMin(rest)
          IN <<[index |-> i, value |-> Abs(data[i]), time |-> Div(i, sampleRate)]>>
             \o peakScan(data, rest, i + windowSize + 1, windowSize, sampleRate)

findSignificantPeaks(data, len, sampleRate) ==
  LET windowSize == peakWindowSize(sampleRate)
      maxValue == peakMaxValue(data, len)
      cands == {i \in windowSize..(len - windowSize - 1) :
                  isLocalPeak(data, i, windowSize, maxValue)}
  IN peakScan(data, cands, windowSize, windowSize, sampleRate)

\* isLikelyLoop(features)
\* a classification whose duration test is `>=`
isLikelyLoopInclusive(features) ==
  Len(features.significantPeaks) > 3 \/ Ge(features.duration, 2 * Scale)

isLikelyLoop(features) ==
  Len(features.significantPeaks) > 3 \/ Gt(features.duration, 2 * Scale)

\* fixed-point value divided by a plain integer
DivI(a, n) ==
  IF a = NaN THEN NaN
  ELSE IF ~IsFinite(a) THEN (IF n >= 0 THEN a ELSE Neg(a))
  ELSE IF n = 0 THEN (IF a = 0 THEN NaN ELSE IF a > 0 THEN PosInf ELSE NegInf)
  ELSE IF n > 0 THEN a \div n
  ELSE (-a) \div (-n)

\* extractFeatures(buffer): analysis of channel 0.
\* Math.floor(length * 0.3) and Math.floor(length * 0.7) are taken exactly.
\* main peak: `if (absValue > peakValue)` keeps the first maximum and never
\* selects a NaN
mainPeakValue(data, len) ==
  MaxRange([i \in 0..(len - 1) |-> IF IsNaN(data[i]) THEN 0 ELSE Abs(data[i])],
           0, len - 1, 0)

mainPeakIndex(data, len, peakValue) ==
  IF peakValue = 0 THEN 0
  ELSE SetMin({i \in 0..(len - 1) : ~IsNaN(data[i]) /\ Abs(data[i]) = peakValue})

\* decay: the first index from the peak on whose magnitude is below a
\* quarter of the peak; the peak index when there is none
decayIndexOf(data, len, peakValue, peakIndex) ==
  LET below == {i \in peakIndex..(len - 1) : Lt(Abs(data[i]), MulC(peakValue, 1, 4))}
  IN IF below = {} THEN peakIndex ELSE SetMin(below)

\* sustain: the mean magnitude over [sustainStart, sustainEnd), divided by
\* (sustainEnd - sustainStart) || 1
sustainLevelOf(data, len, sustainStart, sustainEnd) ==
  DivI(SumRange([i \in 0..(len - 1) |-> Abs(data[i])], sustainStart,
                (IF sustainEnd < len THEN sustainEnd ELSE len) - 1),
       IF sustainEnd - sustainStart # 0 THEN sustainEnd - sustainStart ELSE 1)

\* energy /= data.length
energyOf(data, len) ==
  DivI(SumRange([i \in 0..(len - 1) |-> Mul(data[i], data[i])], 0, len - 1), len)

zeroCrossingsOf(data, len) ==
  Cardinality({i \in 1..(len - 1) :
                 \/ (Ge(data[i], 0) /\ Lt(data[i - 1], 0))
                 \/ (Lt(data[i], 0) /\ Ge(data[i - 1], 0))})

\* zeroCrossings / data.length * buffer.sampleRate / 2
spectralCentroidOf(data, len, sampleRate) ==
  DivI(MulI(Div(zeroCrossingsOf(data, len), len), sampleRate), 2)

\* the object extractFeatures returns, from the indices it found
featureSet(buffer, data, peakValue, peakIndex, decayIndex, significantPeaks) ==
  [attackTime |-> Div(peakIndex, buffer.sampleRate),
   decayTime |-> Div(decayIndex - peakIndex, buffer.sampleRate),
   sustainLevel |->
     sustainLevelOf(data, buffer.length,
                    IF decayIndex <= FloorFrac(buffer.length, 3, 10)
                    THEN decayIndex ELSE FloorFrac(buffer.length, 3, 10),
                    FloorFrac(buffer.length, 7, 10)),
   releaseTime |-> Div(buffer.length - FloorFrac(buffer.length, 7, 10),
                       buffer.sampleRate),
   energy |-> energyOf(data, buffer.length),
   spectralCentroid |-> spectralCentroidOf(data, buffer.length, buffer.sampleRate),
   peakValue |-> peakValue,
   peakIndex |-> peakIndex,
   duration |-> buffer.duration,
   dynamicRange |-> Sub(MaxRange(data, 0, buffer.length - 1, -Scale),
                        MinRange(data, 0, buffer.length - 1, Scale)),
   transientDensity |-> Div(Num(Len(significantPeaks)), buffer.duration),
   significantPeaks |-> significantPeaks]

extractFeatures(buffer) ==
  LET data == getChannelData(buffer, 0)
      peakValue == mainPeakValue(data, buffer.length)
      peakIndex == mainPeakIndex(data, buffer.length, peakValue)
  IN featureSet(buffer, data, peakValue, peakIndex,
                decayIndexOf(data, buffer.length, peakValue, peakIndex),
                findSignificantPeaks(data, buffer.length, buffer.sampleRate))

\* ------------------------------------------------------------ random source
\* Math.random(): the k-th value drawn from the stream `seed`, a fixed-point
\* value in [0, 1).  Stream 0 wanders over three levels (lowest value,
\* midpoint, highest value) without a short period; streams 1, 2 and 3 stay
\* on one level; the others rotate through the levels.
RandomLevels == <<0, Scale \div 2, Scale - 1>>

Rand(seed, k) ==
  IF seed = 0 THEN RandomLevels[((((k * k) \div 7) + (k \div 11)) % 3) + 1]
  ELSE IF seed <= 3 THEN RandomLevels[seed]
  ELSE RandomLevels[((seed + k) % 3) + 1]

\* ------------------------------------------------------- feature mutation
\* randomize(value, range, focusFactor) of modifyFeatures, drawing the k-th
\* random number: value * (1 + (Math.random() * 2 - 1) * range * amount * focusFactor)
\* a randomize that takes an amount below 0.1 for 0.1
randomizeAtLeastTenth(value, rnum, rden, focusFactor, amount, seed, k) ==
  LET variation == MulI(Mul(MulC(Sub(MulI(Rand(seed, k), 2), Scale), rnum, rden),
                            Max(amount, Scale \div 10)), focusFactor)
  IN Mul(value, Add(Scale, variation))

randomize(value, rnum, rden, focusFactor, amount, seed, k) ==
  LET variation == MulI(Mul(MulC(Sub(MulI(Rand(seed, k), 2), Scale), rnum, rden),
                            amount), focusFactor)
  IN Mul(value, Add(Scale, variation))

\* modifyFeatures(features, amount, options, isLoop); pos is the number of
\* random numbers drawn before the call.  options.focus || 'balanced'.
\* a modifyFeatures whose decay factor follows the attack focus
modifyFeaturesDecayOnAttack(features, amount, focus, isLoop, seed, pos) ==
  LET attackFocus == IF focus = "attack" THEN 2 ELSE 1
      decayFocus == IF focus = "attack" THEN 2 ELSE 1
      sustainFocus == IF focus = "sustain" THEN 2 ELSE 1
      releaseFocus == IF focus = "release" THEN 2 ELSE 1
      toneFocus == IF focus = "tone" THEN 2 ELSE 1
      peaks == features.significantPeaks
  IN [features EXCEPT
        !.attackTime = randomize(features.attackTime, 7, 10, attackFocus, amount, seed, pos),
        !.decayTime = randomize(features.decayTime, 8, 10, decayFocus, amount, seed, pos + 1),
        !.sustainLevel = randomize(features.sustainLevel, 6, 10, sustainFocus, amount, seed, pos + 2),
        !.releaseTime = randomize(features.releaseTime, 9, 10, releaseFocus, amount, seed, pos + 3),
        !.spectralCentroid = randomize(features.spectralCentroid, 6, 10, toneFocus, amount, seed, pos + 4),
        !.energy = IF isLoop
                   THEN randomize(features.energy, 2, 10, 1, amount, seed, pos + 5)
                   ELSE randomize(features.energy, 4, 10, 1, amount, seed, pos + 5),
        !.significantPeaks =
           IF isLoop /\ Len(peaks) > 0
           THEN [p \in 1..Len(peaks) |->
                   [peaks[p] EXCEPT
                      !.index = Floor(randomize(Num(peaks[p].index), 2, 100, 1,
                                                amount, seed, pos + 4 + 2 * p)),
                      !.value = randomize(peaks[p].value, 1, 10, 1,
                                          amount, seed, pos + 5 + 2 * p)]]
           ELSE peaks]

modifyFeatures(features, amount, focus, isLoop, seed, pos) ==
  LET attackFocus == IF focus = "attack" THEN 2 ELSE 1
      decayFocus == IF focus = "decay" THEN 2 ELSE 1
      sustainFocus == IF focus = "sustain" THEN 2 ELSE 1
      releaseFocus == IF focus = "release" THEN 2 ELSE 1
      toneFocus == IF focus = "tone" THEN 2 ELSE 1
      peaks == features.significantPeaks
  IN [features EXCEPT
        !.attackTime = randomize(features.attackTime, 7, 10, attackFocus, amount, seed, pos),
        !.decayTime = randomize(features.decayTime, 8, 10, decayFocus, amount, seed, pos + 1),
        !.sustainLevel = randomize(features.sustainLevel, 6, 10, sustainFocus, amount, seed, pos + 2),
        !.releaseTime = randomize(features.releaseTime, 9, 10, releaseFocus, amount, seed, pos + 3),
        !.spectralCentroid = randomize(features.spectralCentroid, 6, 10, toneFocus, amount, seed, pos + 4),
        !.energy = IF isLoop
                   THEN randomize(features.energy, 2, 10, 1, amount, seed, pos + 5)
                   ELSE randomize(features.energy, 4, 10, 1, amount, seed, pos + 5),
        !.significantPeaks =
           IF isLoop /\ Len(peaks) > 0
           THEN [p \in 1..Len(peaks) |->
                   [peaks[p] EXCEPT
                      !.index = Floor(randomize(Num(peaks[p].index), 2, 100, 1,
                                                amount, seed, pos + 4 + 2 * p)),
                      !.value = randomize(peaks[p].value, 1, 10, 1,
                                          amount, seed, pos + 5 + 2 * p)]]
           ELSE peaks]

\* number of Math.random() calls made by modifyFeatures
modifyFeaturesDraws(features, isLoop) ==
  6 + (IF isLoop THEN 2 * Len(features.significantPeaks) ELSE 0)

\* ------------------------------------------------------ envelope synthesis
\* Math.sqrt: NaN below zero, the integer square root of the fixed-point
\* value otherwise
RECURSIVE isqrt(_, _, _)
isqrt(n, lo, hi) ==
  IF lo >= hi THEN lo
  ELSE LET mid == (lo + hi + 1) \div 2
       IN IF mid * mid <= n THEN isqrt(n, mid, hi) ELSE isqrt(n, lo, mid - 1)

Sqrt(x) ==
  IF x = NaN \/ x < 0 THEN NaN
  ELSE IF x = PosInf THEN PosInf
  ELSE isqrt(x * Scale, 0, 46340)

\* typed-array read: an index outside the array (or NaN) reads `undefined`,
\* which a Float32Array stores as NaN
ReadAt(data, len, idx) ==
  IF IsFinite(idx) /\ idx >= 0 /\ idx < len THEN data[idx] ELSE NaN

\* Math.min(index, length - 1)
MinIdx(idx, last) == IF idx = NaN THEN NaN ELSE IF idx <= last THEN idx ELSE last

\* processOneShot(inputData, outputData, features): the value written at i
processOneShot(inputData, len, features) ==
  LET attackEnd == Floor(MulI(Mul(features.attackTime, features.peakValue), len))
      decayEnd == Add(attackEnd, Floor(MulI(features.decayTime, len)))
      releaseStart == FloorFrac(len, 7, 10)
  IN [i \in 0..(len - 1) |->
        IF Lt(i, attackEnd)
        THEN LET originalIndex == Floor(Div(i * features.peakIndex, attackEnd))
             IN ReadAt(inputData, len, MinIdx(originalIndex, len - 1))
        ELSE IF Lt(i, decayEnd)
        THEN LET decayPosition == Div(Sub(i, attackEnd), Sub(decayEnd, attackEnd))
                 originalDecayIndex ==
                   Floor(Add(Num(features.peakIndex),
                             Mul(decayPosition, MulI(features.decayTime, len))))
             IN ReadAt(inputData, len, MinIdx(originalDecayIndex, len - 1))
        ELSE IF i < releaseStart
        THEN Mul(inputData[i], MulC(features.sustainLevel, 4, 1))
        ELSE LET releasePosition == Div(i - releaseStart, len - releaseStart)
                 releaseValue == Sub(Scale, Mul(releasePosition,
                                                MulC(features.releaseTime, 10, 3)))
             IN Mul(inputData[i], Max(0, releaseValue))]

\* processLoopAudio(inputData, outputData, features): outputData starts as a
\* copy of inputData; the segments are processed in peak order, each writing
\* inputData[i] * factor, so index i ends with the value written by the last
\* processed segment that contains it.
loopSegmentStart(peaks, p) == peaks[p].index
loopSegmentEnd(peaks, p, len) == IF p < Len(peaks) THEN peaks[p + 1].index ELSE len

loopSegmentValue(inputData, i, segmentStart, segmentEnd, features) ==
  LET segmentLength == segmentEnd - segmentStart
      attackEnd == Add(segmentStart,
                       Floor(MulI(features.attackTime, segmentLength * 10)))
      decayEnd == segmentStart + FloorFrac(segmentLength, 3, 10)
      releaseStart == segmentStart + FloorFrac(segmentLength, 7, 10)
      sustainRatio == MulC(features.sustainLevel, 4, 1)
  IN IF Lt(i, attackEnd)
     THEN LET attackPosition == Div(i - segmentStart, Sub(attackEnd, segmentStart))
              attackFactor == Mul(attackPosition,
                                  Sub(2 * Scale, MulC(features.attackTime, 100, 1)))
          IN Mul(inputData[i], attackFactor)
     ELSE IF i < decayEnd
     THEN LET decayPosition == Div(Sub(i, attackEnd), Sub(decayEnd, attackEnd))
              decayFactor == Sub(Scale,
                                 Mul(Mul(decayPosition, Sub(Scale, sustainRatio)),
                                     MulC(features.decayTime, 20, 1)))
          IN Mul(inputData[i], decayFactor)
     ELSE IF i < releaseStart
     THEN Mul(inputData[i], sustainRatio)
     ELSE LET releasePosition == Div(i - releaseStart, segmentEnd - releaseStart)
              releaseValue == Mul(sustainRatio,
                                  Sub(Scale, Mul(releasePosition,
                                                 MulC(features.releaseTime, 10, 1))))
          IN Mul(inputData[i], Max(0, releaseValue))

processLoopAudio(inputData, len, features) ==
  LET peaks == features.significantPeaks
      covering(i) ==
        {p \in 1..Len(peaks) :
           /\ ~Lt(Sub(loopSegmentEnd(peaks, p, len), loopSegmentStart(peaks, p)), 10)
           /\ Ge(i, loopSegmentStart(peaks, p))
           /\ Lt(i, loopSegmentEnd(peaks, p, len))}
  IN [i \in 0..(len - 1) |->
        IF Len(peaks) > 1 /\ covering(i) # {}
        THEN LET p == CHOOSE q \in covering(i) : \A r \in covering(i) : r <= q
             IN loopSegmentValue(inputData, i, loopSegmentStart(peaks, p),
                                 loopSegmentEnd(peaks, p, len), features)
        ELSE inputData[i]]

\* the two in-place passes of applySpectralAdjustment: the value at i depends
\* on the value already written at i - 1.  Each returns the values written
\* at lo..hi (as a sequence), given the value `prev` at lo - 1; the range is
\* split in halves, the right half starting from the last value of the left.
RECURSIVE boostScan(_, _, _, _, _)
boostScan(data, lo, hi, prev, spectralRatio) ==
  IF lo > hi THEN <<>>
  ELSE IF lo = hi
  THEN <<Add(data[lo], MulC(Mul(Sub(data[lo], prev), Sub(spectralRatio, Scale)), 1, 2))>>
  ELSE LET mid == (lo + hi) \div 2
           left == boostScan(data, lo, mid, prev, spectralRatio)
       IN left \o boostScan(data, mid + 1, hi, left[Len(left)], spectralRatio)

RECURSIVE lowPassScan(_, _, _, _, _)
lowPassScan(data, lo, hi, prevSample, spectralRatio) ==
  IF lo > hi THEN <<>>
  ELSE IF lo = hi
  THEN <<Add(Mul(data[lo], spectralRatio), Mul(prevSample, Sub(Scale, spectralRatio)))>>
  ELSE LET mid == (lo + hi) \div 2
           left == lowPassScan(data, lo, mid, prevSample, spectralRatio)
       IN left \o lowPassScan(data, mid + 1, hi, left[Len(left)], spectralRatio)

\* applySpectralAdjustment(data, spectralRatio)
applySpectralAdjustment(data, len, spectralRatio) ==
  IF len < 2 THEN data
  ELSE IF Gt(spectralRatio, Scale)
  THEN LET out == boostScan(data, 1, len - 1, data[0], spectralRatio)
       IN [i \in 0..(len - 1) |-> IF i = 0 THEN data[0] ELSE out[i]]
  ELSE IF Lt(spectralRatio, Scale)
  THEN LET out == lowPassScan(data, 1, len - 1, data[0], spectralRatio)
       IN [i \in 0..(len - 1) |-> IF i = 0 THEN data[0] ELSE out[i]]
  ELSE data

\* features.x / (features.x > 0 ? features.x : 0.0001)
\* the ratio without the `> 0` test
unguardedSelfRatio(x) == Div(x, x)

\* a ratio of twice the feature to the feature
guardedSelfRatioTwice(x) == IF Gt(x, 0) THEN Div(MulI(x, 2), x) ELSE MulC(x, 10000, 1)

guardedSelfRatio(x) == IF Gt(x, 0) THEN Div(x, x) ELSE MulC(x, 10000, 1)

energyRatioOf(features) == Sqrt(guardedSelfRatio(features.energy))
spectralRatioOf(features) == guardedSelfRatio(features.spectralCentroid)

\* synthesizeAudio(originalBuffer, features, isLoop): one channel
synthesizeChannel(inputData, len, features, isLoop) ==
  LET shaped == IF isLoop THEN processLoopAudio(inputData, len, features)
                ELSE processOneShot(inputData, len, features)
      energyRatio == energyRatioOf(features)
      scaled == [i \in 0..(len - 1) |-> Mul(shaped[i], energyRatio)]
  IN applySpectralAdjustment(scaled, len, spectralRatioOf(features))

\* a synthesizeAudio that creates a one-channel buffer
synthesizeAudioMono(originalBuffer, features, isLoop) ==
  AudioBuffer(1, originalBuffer.length, originalBuffer.sampleRate,
              [channel \in 0..0 |->
                 synthesizeChannel(getChannelData(originalBuffer, channel),
                                   originalBuffer.length, features, isLoop)])

synthesizeAudio(originalBuffer, features, isLoop) ==
  AudioBuffer(originalBuffer.numberOfChannels, originalBuffer.length,
              originalBuffer.sampleRate,
              [channel \in 0..(originalBuffer.numberOfChannels - 1) |->
                 synthesizeChannel(getChannelData(originalBuffer, channel),
                                   originalBuffer.length, features, isLoop)])

\* generateVariation(buffer, variationAmount, options) from the features it
\* extracted: the loop flag is recomputed from the features of the buffer it
\* is given
variationOf(buffer, features, variationAmount, focus, seed, pos) ==
  synthesizeAudio(buffer,
                  modifyFeatures(features, variationAmount, focus,
                                 isLikelyLoop(features), seed, pos),
                  isLikelyLoop(features))

generateVariation(buffer, variationAmount, focus, seed, pos) ==
  variationOf(buffer, extractFeatures(buffer), variationAmount, focus, seed, pos)

\* ------------------------------------------------------- AudioProcessor
\* A decimal literal of the source is written <<num, den>>.
\* processTransientEnhancement(buffer, attackGain, sustainGain)
RECURSIVE envelopeScan(_, _, _, _, _, _)
envelopeScan(inputData, lo, hi, envelope, attackSamples, releaseSamples) ==
  IF lo > hi THEN <<>>
  ELSE IF lo = hi
  THEN LET inputSample == Abs(inputData[lo])
       IN <<IF Gt(inputSample, envelope)
            THEN Add(envelope, DivI(Sub(inputSample, envelope), attackSamples))
            ELSE Add(envelope, DivI(Sub(inputSample, envelope), releaseSamples))>>
  ELSE LET mid == (lo + hi) \div 2
           left == envelopeScan(inputData, lo, mid, envelope, attackSamples, releaseSamples)
       IN left \o envelopeScan(inputData, mid + 1, hi, left[Len(left)],
                               attackSamples, releaseSamples)

transientChannel(inputData, len, sampleRate, isLikelyLoopFlag, attackGain, sustainGain) ==
  LET attackSamples == IF isLikelyLoopFlag THEN FloorFrac(sampleRate, 2, 1000)
                       ELSE FloorFrac(sampleRate, 5, 1000)
      releaseSamples == IF isLikelyLoopFlag THEN FloorFrac(sampleRate, 2, 100)
                        ELSE FloorFrac(sampleRate, 5, 100)
      envelope == envelopeScan(inputData, 0, len - 1, 0, attackSamples, releaseSamples)
  IN [i \in 0..(len - 1) |->
        LET isTransient ==
              Gt(Abs(inputData[i]),
                 IF isLikelyLoopFlag THEN MulC(envelope[i + 1], 12, 10)
                 ELSE MulC(envelope[i + 1], 15, 10))
        IN IF isTransient THEN MulC(inputData[i], attackGain[1], attackGain[2])
           ELSE MulC(inputData[i], sustainGain[1], sustainGain[2])]

\* the duration test the effects use in place of the loop flag
durationIsLoop(buffer) == Gt(buffer.duration, 2 * Scale)

processTransientEnhancement(buffer, attackGain, sustainGain) ==
  AudioBuffer(buffer.numberOfChannels, buffer.length, buffer.sampleRate,
              [channel \in 0..(buffer.numberOfChannels - 1) |->
                 transientChannel(getChannelData(buffer, channel), buffer.length,
                                  buffer.sampleRate, durationIsLoop(buffer),
                                  attackGain, sustainGain)])

\* Math.pow(2, semitones / 12) for the shifts the recipes use, to 1/Scale;
\* semitones is given in half semitones
pitchRatioOf(halfSemitones) ==
  CASE halfSemitones = 1 -> 1054
    [] halfSemitones = 2 -> 1085
    [] halfSemitones = 6 -> 1218
    [] halfSemitones = -2 -> 966
    [] halfSemitones = -6 -> 861

\* a resampler that repeats the last input sample once the read index has
\* left the input
pitchChannelHoldingLast(inputData, len, pitchRatio) ==
  [i \in 0..(len - 1) |->
     LET readIndex == MulI(pitchRatio, i)
         readIndex1 == Floor(readIndex)
         readIndex2 == readIndex1 + 1
         fraction == readIndex - Num(readIndex1)
     IN IF readIndex2 < len
        THEN Add(Mul(inputData[readIndex1], Scale - fraction),
                 Mul(inputData[readIndex2], fraction))
        ELSE inputData[len - 1]]

\* processPitchShift(buffer, semitones): linear-interpolation resampling
\* into a zero-initialised buffer of the input's length
pitchChannel(inputData, len, pitchRatio) ==
  [i \in 0..(len - 1) |->
     LET readIndex == MulI(pitchRatio, i)
         readIndex1 == Floor(readIndex)
         readIndex2 == readIndex1 + 1
         fraction == readIndex - Num(readIndex1)
     IN IF readIndex2 < len
        THEN Add(Mul(inputData[readIndex1], Scale - fraction),
                 Mul(inputData[readIndex2], fraction))
        ELSE IF readIndex1 < len THEN inputData[readIndex1]
        ELSE 0]

\* a pitch shift that resizes its output to length / pitchRatio
processPitchShiftResized(buffer, halfSemitones) ==
  AudioBuffer(buffer.numberOfChannels,
              FloorFrac(buffer.length, Scale, pitchRatioOf(halfSemitones)),
              buffer.sampleRate,
              [channel \in 0..(buffer.numberOfChannels - 1) |->
                 pitchChannel(getChannelData(buffer, channel),
                              FloorFrac(buffer.length, Scale,
                                        pitchRatioOf(halfSemitones)),
                              pitchRatioOf(halfSemitones))])

processPitchShift(buffer, halfSemitones) ==
  AudioBuffer(buffer.numberOfChannels, buffer.length, buffer.sampleRate,
              [channel \in 0..(buffer.numberOfChannels - 1) |->
                 pitchChannel(getChannelData(buffer, channel), buffer.length,
                              pitchRatioOf(halfSemitones))])

\* processBitCrush(buffer, bits)
Pow2(bits) == 2 ^ bits

\* a quantizer that scales by steps - 1 and divides by steps
bitCrushSampleShortScale(x, bits) ==
  LET steps == Pow2(bits)
      quantizedSteps == Floor(DivI(MulI(Add(x, Scale), steps - 1), 2))
  IN Sub(MulI(DivI(Num(quantizedSteps), steps), 2), Scale)

bitCrushSample(x, bits) ==
  LET steps == Pow2(bits)
      \* Math.floor(((x + 1) / 2) * steps)
      quantizedSteps == Floor(DivI(MulI(Add(x, Scale), steps), 2))
  IN Sub(MulI(DivI(Num(quantizedSteps), steps), 2), Scale)

processBitCrush(buffer, bits) ==
  AudioBuffer(buffer.numberOfChannels, buffer.length, buffer.sampleRate,
              [channel \in 0..(buffer.numberOfChannels - 1) |->
                 [i \in 0..(buffer.length - 1) |->
                    bitCrushSample(getChannelData(buffer, channel)[i], bits)]])

\* Math.tanh, by the Pade approximant x(27 + x^2) / (27 + 9 x^2) on [-3, 3]
\* and the limits -1, 1 outside
Tanh(x) ==
  IF x = NaN THEN NaN
  ELSE IF x >= 3 * Scale THEN Scale
  ELSE IF x <= -3 * Scale THEN -Scale
  ELSE LET x2 == Mul(x, x)
       IN Div(Mul(x, 27 * Scale + x2), 27 * Scale + 9 * x2)

\* processDistortion(buffer, amount): amount is a plain integer
processDistortion(buffer, amount) ==
  AudioBuffer(buffer.numberOfChannels, buffer.length, buffer.sampleRate,
              [channel \in 0..(buffer.numberOfChannels - 1) |->
                 [i \in 0..(buffer.length - 1) |->
                    Tanh(MulI(getChannelData(buffer, channel)[i], amount))]])

\* Math.exp(-t) for t >= 0, by 1 / (1 + t + t^2/2 + t^3/6)
ExpNeg(t) ==
  LET t2 == Mul(t, t)
      t3 == Mul(t2, t)
  IN Div(Scale, Scale + t + t2 \div 2 + t3 \div 6)

\* extra tail of reverb and delay: Math.floor(sampleRate * extraTime)
extraSamples(buffer) ==
  IF durationIsLoop(buffer) THEN FloorFrac(buffer.sampleRate, 1, 2)
  ELSE buffer.sampleRate

\* the impulse response of processReverb: two channels of decaying noise,
\* filled channel by channel, drawing one random number per sample
reverbImpulseLength(buffer, roomSize) ==
  FloorFrac(buffer.sampleRate, roomSize[1], roomSize[2])

reverbImpulse(impulseLength, seed, pos) ==
  [channel \in 0..1 |->
     [i \in 0..(impulseLength - 1) |->
        Mul(Sub(MulI(Rand(seed, pos + channel * impulseLength + i), 2), Scale),
            ExpNeg(Div(2 * i, impulseLength)))]]

\* processReverb(buffer, roomSize, wetDry): the dry copy, then
\* outputData[i + j] += inputData[i] * impulseData[j] * wetDry for every
\* j < impulseLength with i + j < outputData.length
reverbChannel(inputData, len, outLen, impulseData, impulseLength, wetDry) ==
  [k \in 0..(outLen - 1) |->
     LET dry == IF k < len
                THEN MulC(inputData[k], wetDry[2] - wetDry[1], wetDry[2])
                ELSE 0
         first == IF k - impulseLength + 1 > 0 THEN k - impulseLength + 1 ELSE 0
         last == IF k < len - 1 THEN k ELSE len - 1
         wet == SumRange([i \in first..last |->
                            MulC(Mul(inputData[i], impulseData[k - i]),
                                 wetDry[1], wetDry[2])],
                         first, last)
     IN Add(dry, wet)]

processReverb(buffer, roomSize, wetDry, seed, pos) ==
  LET outLen == buffer.length + extraSamples(buffer)
      impulseLength == reverbImpulseLength(buffer, roomSize)
      impulse == reverbImpulse(impulseLength, seed, pos)
  IN AudioBuffer(buffer.numberOfChannels, outLen, buffer.sampleRate,
                 [channel \in 0..(buffer.numberOfChannels - 1) |->
                    reverbChannel(getChannelData(buffer, channel), buffer.length,
                                  outLen, impulse[channel % 2], impulseLength, wetDry)])

processReverbDraws(buffer, roomSize) == 2 * reverbImpulseLength(buffer, roomSize)

\* the tap loop of processDelay.  feedback = <<num, den>>; the gain of tap
\* number t (from 1) is feedback^t, kept exactly as num^t / den^t.
delayMaxTaps(buffer) == IF durationIsLoop(buffer) THEN 3 ELSE 10

\* currentFeedback > 0.01 for currentFeedback = num^t / den^t
tapGainAboveFloor(feedback, t) == (feedback[1] ^ t) * 100 > feedback[2] ^ t

\* the taps executed by `while (currentFeedback > 0.01 && tapCount < maxTaps)`
RECURSIVE delayTapsFrom(_, _, _)
delayTapsFrom(feedback, t, maxTaps) ==
  IF tapGainAboveFloor(feedback, t) /\ t - 1 < maxTaps
  THEN <<t>> \o delayTapsFrom(feedback, t + 1, maxTaps)
  ELSE <<>>

delayTaps(buffer, feedback) == delayTapsFrom(feedback, 1, delayMaxTaps(buffer))

\* inputData[i] * currentFeedback for tap t
tapSample(x, feedback, t) == MulC(x, feedback[1] ^ t, feedback[2] ^ t)

\* processDelay(buffer, delayTime, feedback): the copy of the input, then
\* every tap adds inputData[i] * currentFeedback at i + delaySamples
delayChannel(inputData, len, outLen, delaySamples, feedback, taps) ==
  [k \in 0..(outLen - 1) |->
     LET original == IF k < len THEN inputData[k] ELSE 0
         src == k - delaySamples
         echoes == IF src >= 0 /\ src < len
                   THEN SumRange([n \in 1..Len(taps) |->
                                    tapSample(inputData[src], feedback, taps[n])],
                                 1, Len(taps))
                   ELSE 0
     IN Add(original, echoes)]

processDelay(buffer, delayTime, feedback) ==
  LET outLen == buffer.length + extraSamples(buffer)
      delaySamples == FloorFrac(buffer.sampleRate, delayTime[1], delayTime[2])
  IN AudioBuffer(buffer.numberOfChannels, outLen, buffer.sampleRate,
                 [channel \in 0..(buffer.numberOfChannels - 1) |->
                    delayChannel(getChannelData(buffer, channel), buffer.length,
                                 outLen, delaySamples, feedback,
                                 delayTaps(buffer, feedback))])

\* ------------------------------------------------------------ input samples
\* Decoded samples.  Every sample has the rate SampleRate; the lengths are
\* given in analysis windows (peakWindowSize) so that the shapes keep their
\* meaning at any rate.
SampleRate == 500

Window == peakWindowSize(SampleRate)

ShortLen == 2 * Window + 4
ClickPos == Window + 1
PeakGap == Window + 3
TrainLen == 2 * Window + 4 * PeakGap
LongLen == 2 * SampleRate + 1

silence(len) == [i \in 0..(len - 1) |-> 0]

\* one transient: 1, -1/2, 1/4 from ClickPos
click(len, gain) ==
  [i \in 0..(len - 1) |->
     IF i = ClickPos THEN gain
     ELSE IF i = ClickPos + 1 THEN -(gain \div 2)
     ELSE IF i = ClickPos + 2 THEN gain \div 4
     ELSE 0]

\* `count` transients PeakGap apart, alternately 1 and -3/4, each followed
\* by a quarter-height sample
peakTrain(len, count) ==
  [i \in 0..(len - 1) |->
     IF i >= Window /\ i < Window + count * PeakGap /\ (i - Window) % PeakGap = 0
     THEN (IF ((i - Window) \div PeakGap) % 2 = 0 THEN Scale ELSE -((3 * Scale) \div 4))
     ELSE IF i > Window /\ i < Window + count * PeakGap /\ (i - Window) % PeakGap = 1
     THEN Scale \div 4
     ELSE 0]

\* "threePeaks" lasts exactly two seconds, "silentLong" one sample more
SampleNames == {"silent", "click", "stereoClick", "train", "threePeaks", "silentLong"}

DecodedSample(name) ==
  CASE name = "silent" ->
         AudioBuffer(1, ShortLen, SampleRate, [c \in 0..0 |-> silence(ShortLen)])
    [] name = "click" ->
         AudioBuffer(1, ShortLen, SampleRate, [c \in 0..0 |-> click(ShortLen, Scale)])
    [] name = "stereoClick" ->
         AudioBuffer(2, ShortLen, SampleRate,
                     [c \in 0..1 |-> IF c = 0 THEN click(ShortLen, Scale)
                                     ELSE click(ShortLen, -(Scale \div 2))])
    [] name = "train" ->
         AudioBuffer(1, TrainLen, SampleRate, [c \in 0..0 |-> peakTrain(TrainLen, 4)])
    [] name = "threePeaks" ->
         AudioBuffer(1, 2 * SampleRate, SampleRate,
                     [c \in 0..0 |-> peakTrain(2 * SampleRate, 3)])
    [] name = "silentLong" ->
         AudioBuffer(1, LongLen, SampleRate, [c \in 0..0 |-> silence(LongLen)])

\* uploaded files: the MIME type and what decodeAudioData makes of the bytes
AudioFile(name) == [type |-> "audio/wav", content |-> name]
TextFile == [type |-> "text/plain", content |-> "corrupt"]
CorruptFile == [type |-> "audio/wav", content |-> "corrupt"]

\* the files a user session picks from
Files ==
  {AudioFile("click"), AudioFile("stereoClick"), AudioFile("train"), TextFile,
   CorruptFile}


\* values the balance slider or a caller passes to setProcessingBalance
BalanceInputs == {-(Scale \div 2), 0, Scale \div 2, Scale, (3 * Scale) \div 2, NaN}

\* bounds on a behaviour: calls of loadAudioFile and generateVariations
\* started, streams of the random source
MaxCalls == 2
NumSeeds == 2

\* --------------------------------------------------------------------- state
Null == [null |-> TRUE]
NoError == "null"

VARIABLES
  client,           \* "hook": the React hook drives both processors;
                    \* "page": the page component drives the hook;
                    \* "direct": a caller uses an AudioProcessor by itself;
                    \* "probe": a caller applies one function of a processor
  \* useHybridAudioProcessor state
  originalSample, variations, isProcessing, error, mlBalance, isLoop,
  \* AudioProcessor fields, and the exception its last call threw
  apOriginalBuffer, apVariations, apIsProcessing, apThrown,
  \* loadAudioFile calls waiting for the decoder
  loading,
  \* the generateVariations call in progress: position, the values it
  \* captured, its local list, its intermediate buffer, the loop flags the
  \* stage just executed used
  genPc, genSample, genBalance, genIsLoop, generatedVariations, genTmp, stageFlags,
  \* Math.random: the stream and the number of values drawn
  rngSeed, rngPos,
  \* history: the batch stored before the current one for the same sample,
  \* the balance each batch was made with, the sample and the loop flag the
  \* stored batch was made from, calls started
  prevVariations, prevBalance, batchBalance, batchSample, batchIsLoop, callsStarted,
  \* a function applied by itself: its argument and its result
  probeInput, probeOutput,
  \* a processDelay call in progress
  delayCall,
  \* the module behind the hook's import of '../lib/mlProcessor': "enhanced"
  \* is the MLProcessor with isLikelyLoop, "lib" the one without
  mlModule,
  \* playback: the hook's currentlyPlaying and playbackSource, and the state
  \* of every AudioBufferSourceNode created so far
  currentlyPlaying, playbackSource, audioSources

hookVars == <<originalSample, variations, isProcessing, error, mlBalance, isLoop>>
apVars == <<apOriginalBuffer, apVariations, apIsProcessing, apThrown>>
genVars == <<genPc, genSample, genBalance, genIsLoop, generatedVariations, genTmp, stageFlags>>
rngVars == <<rngSeed, rngPos>>
histVars == <<prevVariations, prevBalance, batchBalance, batchSample, batchIsLoop>>
pageVars == <<mlModule, currentlyPlaying, playbackSource, audioSources>>
probeVars == <<probeInput, probeOutput, delayCall>>
vars == <<client, hookVars, apVars, loading, genVars, rngVars, histVars,
          callsStarted, probeVars, pageVars>>

\* useState initial values
hookConstructed ==
  /\ originalSample = Null
  /\ variations = <<>>
  /\ isProcessing = FALSE
  /\ error = NoError
  /\ mlBalance = Scale \div 2
  /\ isLoop = FALSE

\* the AudioProcessor constructor
apConstructed ==
  /\ apOriginalBuffer = Null
  /\ apVariations = [i \in 1..8 |-> Null]
  /\ apIsProcessing = FALSE
  /\ apThrown = NoError

\* no generateVariations call in progress, none made yet
noRun ==
  /\ genPc = 0
  /\ genSample = Null
  /\ genBalance = 0
  /\ genIsLoop = FALSE
  /\ generatedVariations = <<>>
  /\ genTmp = Null
  /\ stageFlags = {}
  /\ rngPos = 0
  /\ prevVariations = <<>>
  /\ prevBalance = 0
  /\ batchBalance = 0
  /\ batchSample = Null
  /\ batchIsLoop = FALSE

\* no function applied by itself
noProbe ==
  /\ probeInput = Null
  /\ probeOutput = Null
  /\ delayCall = Null

\* the null of currentlyPlaying (otherwise an id string) and of
\* playbackSource (otherwise the index of a source node)
NoId == "null"
NoSource == 0

\* useState(null) for currentlyPlaying and playbackSource; no source node
\* has been created
noPlayback ==
  /\ currentlyPlaying = NoId
  /\ playbackSource = NoSource
  /\ audioSources = <<>>

Init ==
  /\ client \in {"hook", "direct"}
  /\ hookConstructed
  /\ apConstructed
  /\ loading = <<>>
  /\ noRun
  /\ rngSeed = 0
  /\ callsStarted = 0
  /\ noProbe
  /\ mlModule = "enhanced"
  /\ noPlayback

RemoveAt(seq, n) == [i \in 1..(Len(seq) - 1) |-> IF i < n THEN seq[i] ELSE seq[i + 1]]

\* ----------------------------------------------------- hook: balance, load
\* setProcessingBalance(balance): Math.max(0, Math.min(1, balance))
setProcessingBalance(balance) ==
  /\ client = "hook"
  /\ genPc = 0
  /\ mlBalance' = Max(0, Min(Scale, balance))
  /\ UNCHANGED <<client, pageVars, originalSample, variations, isProcessing, error, isLoop,
                 apVars, loading, genVars, rngVars, histVars, callsStarted, probeVars>>

\* loadAudioFile(file), hook, for a file that is not audio: the type check
\* throws, the catch block sets the error, finally clears isProcessing.
\* (A null file returns at once and changes nothing.)
loadAudioFileRejected(file) ==
  /\ client = "hook"
  /\ genPc = 0
  /\ callsStarted < MaxCalls
  /\ file.type # "audio/wav"
  /\ error' = "File is not an audio file"
  /\ isProcessing' = FALSE
  /\ callsStarted' = callsStarted + 1
  /\ UNCHANGED <<client, pageVars, originalSample, variations, mlBalance, isLoop, apVars,
                 loading, genVars, rngVars, histVars, probeVars>>

\* The hook's client calls loadAudioFile and generateVariations one at a
\* time; the page calls loadAudioFile whenever a file is dropped, a
\* generation in progress or not, and generateVariations when the button is
\* enabled (a sample is loaded and isProcessing is false).
\* loadAudioFile(file), hook, up to the first await inside
\* AudioProcessor.loadAudioFile (file.arrayBuffer / decodeAudioData)
loadAudioFileStart(file) ==
  /\ client \in {"hook", "page"}
  /\ client = "hook" => genPc = 0
  /\ callsStarted < MaxCalls
  /\ file.type = "audio/wav"
  /\ error' = NoError
  /\ isProcessing' = TRUE
  /\ loading' = Append(loading, file)
  /\ callsStarted' = callsStarted + 1
  /\ UNCHANGED <<client, pageVars, originalSample, variations, mlBalance, isLoop, apVars,
                 genVars, rngVars, histVars, probeVars>>

\* the decoder resolves: AudioProcessor stores the buffer, the hook stores
\* it, classifies it, clears the variations and isProcessing
loadAudioFileDecoded(n) ==
  /\ client \in {"hook", "page"}
  /\ client = "hook" => genPc = 0
  /\ n \in 1..Len(loading)
  /\ loading[n].content # "corrupt"
  /\ mlModule = "enhanced"
  /\ LET buffer == DecodedSample(loading[n].content)
         features == extractFeatures(buffer)
     IN /\ apOriginalBuffer' = buffer
        /\ originalSample' = buffer
        /\ isLoop' = isLikelyLoop(features)
  /\ variations' = <<>>
  /\ isProcessing' = FALSE
  /\ loading' = RemoveAt(loading, n)
  /\ prevVariations' = <<>>
  /\ prevBalance' = 0
  /\ batchBalance' = 0
  /\ batchSample' = Null
  /\ batchIsLoop' = FALSE
  /\ UNCHANGED <<client, pageVars, error, mlBalance, apVariations, apIsProcessing, apThrown,
                 genVars, rngVars, callsStarted, probeVars>>

\* the decoder rejects: AudioProcessor rethrows, the hook sets the error
loadAudioFileDecodeFailed(n) ==
  /\ client \in {"hook", "page"}
  /\ client = "hook" => genPc = 0
  /\ n \in 1..Len(loading)
  /\ loading[n].content = "corrupt"
  /\ error' = "Unable to decode audio data"
  /\ isProcessing' = FALSE
  /\ loading' = RemoveAt(loading, n)
  /\ UNCHANGED <<client, pageVars, originalSample, variations, mlBalance, isLoop, apVars,
                 genVars, rngVars, histVars, callsStarted, probeVars>>

\* the decoder resolves and the hook stores the buffer, then the
\* classification throws (the "lib" module has no isLikelyLoop:
\* `mlProcessorRef.current.isLikelyLoop is not a function`): catch sets the
\* error, finally clears isProcessing
loadAudioFileClassifyFailed(n) ==
  /\ client \in {"hook", "page"}
  /\ client = "hook" => genPc = 0
  /\ n \in 1..Len(loading)
  /\ loading[n].content # "corrupt"
  /\ mlModule = "lib"
  /\ apOriginalBuffer' = DecodedSample(loading[n].content)
  /\ originalSample' = DecodedSample(loading[n].content)
  /\ error' = "mlProcessorRef.current.isLikelyLoop is not a function"
  /\ isProcessing' = FALSE
  /\ loading' = RemoveAt(loading, n)
  /\ UNCHANGED <<client, pageVars, variations, mlBalance, isLoop, apVariations,
                 apIsProcessing, apThrown, genVars, rngVars, histVars, callsStarted,
                 probeVars>>

\* ------------------------------------------------- hook: generateVariations
\* What one stage of a recipe yields: the buffer it produced, whether the
\* buffer is pushed onto the local list (otherwise it is kept in a local
\* constant for the next stage), the random numbers it drew, and the loop
\* flags it used (a recipe's own flag where a parameter depends on it, the
\* flag generateVariation recomputes, the duration test inside an effect).
stageResult(out, push, draws, flags) ==
  [out |-> out, push |-> push, draws |-> draws, flags |-> flags]

\* a stage that calls mlProcessor.generateVariation
variationStage(buffer, features, amount, focus, seed, pos, push, recipeFlags) ==
  stageResult(variationOf(buffer, features, amount, focus, seed, pos), push,
              modifyFeaturesDraws(features, isLikelyLoop(features)),
              recipeFlags \cup {isLikelyLoop(features)})

\* generatedVariations.push(buffer) / variations.push(buffer)
\* a push that stores the buffer twice
pushVariationTwice(list, buffer) == Append(Append(list, buffer), buffer)

pushVariation(list, buffer) == Append(list, buffer)

\* one awaited call of a recipe, applied to the sample or to the buffer the
\* stage before it left in a local constant
applyStage(step, sample, tmp, seed, pos) ==
  LET buffer == IF step.input = "sample" THEN sample ELSE tmp
  IN CASE step.op = "variation" ->
            variationStage(buffer, extractFeatures(buffer), step.amount, step.focus,
                           seed, pos, step.push, step.uses)
       [] step.op = "keep" -> stageResult(buffer, step.push, 0, step.uses)
       [] step.op = "transient" ->
            stageResult(processTransientEnhancement(buffer, step.attackGain,
                                                    step.sustainGain),
                        step.push, 0, step.uses \cup {durationIsLoop(buffer)})
       [] step.op = "pitch" ->
            stageResult(processPitchShift(buffer, step.halfSemitones),
                        step.push, 0, step.uses)
       [] step.op = "bitcrush" ->
            stageResult(processBitCrush(buffer, step.bits), step.push, 0, step.uses)
       [] step.op = "distortion" ->
            stageResult(processDistortion(buffer, step.amount), step.push, 0, step.uses)
       [] step.op = "reverb" ->
            stageResult(processReverb(buffer, step.roomSize, step.wetDry, seed, pos),
                        step.push, processReverbDraws(buffer, step.roomSize),
                        step.uses \cup {durationIsLoop(buffer)})
       [] step.op = "delay" ->
            stageResult(processDelay(buffer, step.delayTime, step.feedback),
                        step.push, 0, step.uses \cup {durationIsLoop(buffer)})

\* mlBalance < 0.7
balanceBelowThreshold(balance) == Lt(MulI(balance, 10), 7 * Scale)

\* the awaited calls of the hook's generateVariations, in order; `uses` holds
\* the hook's isLoop where a parameter of the call depends on it
HookLastStage == 13

hookStage(pc, balance, loopFlag) ==
  CASE pc = 1 -> [op |-> "variation", input |-> "sample", push |-> TRUE, uses |-> {},
                  amount |-> MulC(balance, 6, 10), focus |-> "attack"]
    [] pc = 2 -> [op |-> "variation", input |-> "sample", push |-> TRUE, uses |-> {},
                  amount |-> MulC(balance, 7, 10), focus |-> "decay"]
    [] pc = 3 -> [op |-> "variation", input |-> "sample", push |-> TRUE, uses |-> {},
                  amount |-> MulC(balance, 65, 100), focus |-> "sustain"]
    [] pc = 4 -> [op |-> "variation", input |-> "sample", push |-> TRUE, uses |-> {},
                  amount |-> MulC(balance, 7, 10), focus |-> "release"]
    [] pc = 5 -> [op |-> "variation", input |-> "sample", push |-> FALSE, uses |-> {},
                  amount |-> MulC(balance, 8, 10), focus |-> "tone"]
    [] pc = 6 -> [op |-> IF balanceBelowThreshold(balance) THEN "bitcrush" ELSE "keep",
                  input |-> "tmp", push |-> TRUE, uses |-> {}, bits |-> 10]
    [] pc = 7 -> [op |-> "pitch", input |-> "sample", push |-> FALSE, uses |-> {loopFlag},
                  halfSemitones |-> IF loopFlag THEN 2 ELSE 6]
    [] pc = 8 -> [op |-> "variation", input |-> "tmp", push |-> TRUE, uses |-> {},
                  amount |-> MulC(balance, 5, 10), focus |-> "balanced"]
    [] pc = 9 -> [op |-> "reverb", input |-> "sample", push |-> FALSE, uses |-> {loopFlag},
                  roomSize |-> IF loopFlag THEN <<1, 10>> ELSE <<3, 10>>,
                  wetDry |-> IF loopFlag THEN <<3, 10>> ELSE <<6, 10>>]
    [] pc = 10 -> [op |-> "variation", input |-> "tmp", push |-> TRUE, uses |-> {loopFlag},
                   amount |-> MulC(balance, 4, 10),
                   focus |-> IF loopFlag THEN "sustain" ELSE "release"]
    [] pc = 11 -> IF loopFlag
                  THEN [op |-> "delay", input |-> "sample", push |-> FALSE,
                        uses |-> {loopFlag},
                        delayTime |-> <<125, 1000>>, feedback |-> <<3, 10>>]
                  ELSE [op |-> "distortion", input |-> "sample", push |-> FALSE,
                        uses |-> {loopFlag}, amount |-> 8]
    [] pc = 12 -> IF loopFlag
                  THEN [op |-> "distortion", input |-> "tmp", push |-> FALSE,
                        uses |-> {loopFlag}, amount |-> 3]
                  ELSE [op |-> "bitcrush", input |-> "tmp", push |-> FALSE,
                        uses |-> {loopFlag}, bits |-> 6]
    [] pc = 13 -> [op |-> "variation", input |-> "tmp", push |-> TRUE, uses |-> {},
                   amount |-> MulC(balance, 9, 10), focus |-> "balanced"]

\* a generateVariations that calls setIsProcessing(true) before its guard
generateVariationsNoSampleBusy ==
  /\ client = "hook"
  /\ genPc = 0
  /\ originalSample = Null
  /\ error' = "No sample loaded"
  /\ isProcessing' = TRUE
  /\ UNCHANGED <<client, pageVars, originalSample, variations, mlBalance, isLoop,
                 apVars, loading, genVars, rngVars, histVars, callsStarted, probeVars>>

\* generateVariations with no sample: setError('No sample loaded'); return
generateVariationsNoSample ==
  /\ client = "hook"
  /\ genPc = 0
  /\ originalSample = Null
  /\ error' = "No sample loaded"
  /\ UNCHANGED <<client, pageVars, originalSample, variations, isProcessing, mlBalance, isLoop,
                 apVars, loading, genVars, rngVars, histVars, callsStarted, probeVars>>

\* a generateVariations callback created without isLoop among its
\* dependencies: it works on the isLoop of the first render
generateVariationsStartStale ==
  /\ client \in {"hook", "page"}
  /\ client = "page" => ~isProcessing
  /\ mlModule = "enhanced"
  /\ genPc = 0
  /\ originalSample # Null
  /\ callsStarted < MaxCalls
  /\ error' = NoError
  /\ isProcessing' = TRUE
  /\ genPc' = 1
  /\ genSample' = originalSample
  /\ genBalance' = mlBalance
  /\ genIsLoop' = FALSE
  /\ generatedVariations' = <<>>
  /\ genTmp' = Null
  /\ stageFlags' = {}
  /\ callsStarted' = callsStarted + 1
  /\ UNCHANGED <<client, pageVars, originalSample, variations, mlBalance, isLoop, apVars,
                 loading, rngVars, histVars, probeVars>>

\* generateVariations up to the first await: the callback works on the
\* originalSample, mlBalance and isLoop of the render it was created in
generateVariationsStart ==
  /\ client \in {"hook", "page"}
  /\ client = "page" => ~isProcessing
  /\ mlModule = "enhanced"
  /\ genPc = 0
  /\ originalSample # Null
  /\ callsStarted < MaxCalls
  /\ error' = NoError
  /\ isProcessing' = TRUE
  /\ genPc' = 1
  /\ genSample' = originalSample
  /\ genBalance' = mlBalance
  /\ genIsLoop' = isLoop
  /\ generatedVariations' = <<>>
  /\ genTmp' = Null
  /\ stageFlags' = {}
  /\ callsStarted' = callsStarted + 1
  /\ UNCHANGED <<client, pageVars, originalSample, variations, mlBalance, isLoop, apVars,
                 loading, rngVars, histVars, probeVars>>

\* one awaited stage completes
generateVariationsStep ==
  /\ client \in {"hook", "page"}
  /\ genPc \in 1..HookLastStage
  /\ LET r == applyStage(hookStage(genPc, genBalance, genIsLoop), genSample, genTmp,
                         rngSeed, rngPos)
     IN /\ generatedVariations' = IF r.push THEN pushVariation(generatedVariations, r.out)
                                  ELSE generatedVariations
        /\ genTmp' = IF r.push THEN Null ELSE r.out
        /\ rngPos' = rngPos + r.draws
        /\ stageFlags' = r.flags
  /\ genPc' = genPc + 1
  /\ UNCHANGED <<client, pageVars, hookVars, apVars, loading, genSample, genBalance, genIsLoop,
                 rngSeed, histVars, callsStarted, probeVars>>

\* setVariations(generatedVariations), then finally: setIsProcessing(false)
generateVariationsFinish ==
  /\ client \in {"hook", "page"}
  /\ genPc = HookLastStage + 1
  /\ variations' = generatedVariations
  /\ isProcessing' = FALSE
  /\ prevVariations' = variations
  /\ prevBalance' = batchBalance
  /\ batchBalance' = genBalance
  /\ batchSample' = genSample
  /\ batchIsLoop' = genIsLoop
  /\ genPc' = 0
  /\ genSample' = Null
  /\ genBalance' = 0
  /\ genIsLoop' = FALSE
  /\ generatedVariations' = <<>>
  /\ genTmp' = Null
  /\ stageFlags' = {}
  /\ UNCHANGED <<client, pageVars, originalSample, error, mlBalance, isLoop, apVars, loading,
                 rngVars, callsStarted, probeVars>>

\* a catch block that stores the variations generated before the failure
generateVariationsFailedKeepingPartial ==
  /\ client \in {"hook", "page"}
  /\ genPc \in 1..HookLastStage
  /\ error' = "Failed to generate variations"
  /\ isProcessing' = FALSE
  /\ variations' = generatedVariations
  /\ genPc' = 0
  /\ genSample' = Null
  /\ genBalance' = 0
  /\ genIsLoop' = FALSE
  /\ generatedVariations' = <<>>
  /\ genTmp' = Null
  /\ stageFlags' = {}
  /\ UNCHANGED <<client, pageVars, originalSample, mlBalance, isLoop, apVars, loading,
                 rngVars, histVars, callsStarted, probeVars>>

\* an awaited stage throws (createBuffer fails): catch sets the error,
\* finally clears isProcessing; the local list is dropped
generateVariationsFailed ==
  /\ client \in {"hook", "page"}
  /\ genPc \in 1..HookLastStage
  /\ error' = "Failed to generate variations"
  /\ isProcessing' = FALSE
  /\ genPc' = 0
  /\ genSample' = Null
  /\ genBalance' = 0
  /\ genIsLoop' = FALSE
  /\ generatedVariations' = <<>>
  /\ genTmp' = Null
  /\ stageFlags' = {}
  /\ UNCHANGED <<client, pageVars, originalSample, variations, mlBalance, isLoop, apVars, loading,
                 rngVars, histVars, callsStarted, probeVars>>

\* ------------------------------------------- AudioProcessor used directly
\* AudioProcessor.loadAudioFile(file) up to the first await
apLoadAudioFileStart(file) ==
  /\ client = "direct"
  /\ genPc = 0
  /\ callsStarted < MaxCalls
  /\ loading' = Append(loading, file)
  /\ callsStarted' = callsStarted + 1
  /\ UNCHANGED <<client, pageVars, hookVars, apVars, genVars, rngVars, histVars, probeVars>>

\* decodeAudioData resolves: this.originalBuffer = audioBuffer
apLoadAudioFileDecoded(n) ==
  /\ client = "direct"
  /\ genPc = 0
  /\ n \in 1..Len(loading)
  /\ loading[n].content # "corrupt"
  /\ apOriginalBuffer' = DecodedSample(loading[n].content)
  /\ apThrown' = NoError
  /\ loading' = RemoveAt(loading, n)
  /\ UNCHANGED <<client, pageVars, hookVars, apVariations, apIsProcessing, genVars, rngVars,
                 histVars, callsStarted, probeVars>>

\* decodeAudioData rejects: the error is logged and rethrown
apLoadAudioFileFailed(n) ==
  /\ client = "direct"
  /\ genPc = 0
  /\ n \in 1..Len(loading)
  /\ loading[n].content = "corrupt"
  /\ apThrown' = "Unable to decode audio data"
  /\ loading' = RemoveAt(loading, n)
  /\ UNCHANGED <<client, pageVars, hookVars, apOriginalBuffer, apVariations, apIsProcessing,
                 genVars, rngVars, histVars, callsStarted, probeVars>>

\* the stages of AudioProcessor.generateVariations(isLoop), one per await
ApLastStage == 10

apStage(pc, loopFlag) ==
  CASE pc = 1 -> [op |-> "transient", input |-> "sample", push |-> TRUE,
                  uses |-> {loopFlag},
                  attackGain |-> IF loopFlag THEN <<11, 10>> ELSE <<13, 10>>,
                  sustainGain |-> IF loopFlag THEN <<95, 100>> ELSE <<85, 100>>]
    [] pc = 2 -> [op |-> "pitch", input |-> "sample", push |-> TRUE, uses |-> {loopFlag},
                  halfSemitones |-> IF loopFlag THEN 2 ELSE 6]
    [] pc = 3 -> [op |-> "pitch", input |-> "sample", push |-> TRUE, uses |-> {loopFlag},
                  halfSemitones |-> IF loopFlag THEN -2 ELSE -6]
    [] pc = 4 -> [op |-> "bitcrush", input |-> "sample", push |-> TRUE,
                  uses |-> {loopFlag}, bits |-> IF loopFlag THEN 10 ELSE 8]
    [] pc = 5 -> [op |-> "reverb", input |-> "sample", push |-> TRUE, uses |-> {loopFlag},
                  roomSize |-> IF loopFlag THEN <<1, 10>> ELSE <<3, 10>>,
                  wetDry |-> IF loopFlag THEN <<3, 10>> ELSE <<5, 10>>]
    [] pc = 6 -> [op |-> "delay", input |-> "sample", push |-> TRUE, uses |-> {loopFlag},
                  delayTime |-> IF loopFlag THEN <<125, 1000>> ELSE <<25, 100>>,
                  feedback |-> IF loopFlag THEN <<3, 10>> ELSE <<2, 5>>]
    [] pc = 7 -> [op |-> "pitch", input |-> "sample", push |-> FALSE, uses |-> {loopFlag},
                  halfSemitones |-> IF loopFlag THEN 1 ELSE 2]
    [] pc = 8 -> [op |-> "reverb", input |-> "tmp", push |-> TRUE, uses |-> {loopFlag},
                  roomSize |-> IF loopFlag THEN <<5, 100>> ELSE <<1, 10>>,
                  wetDry |-> IF loopFlag THEN <<2, 10>> ELSE <<3, 10>>]
    [] pc = 9 -> IF loopFlag
                 THEN [op |-> "delay", input |-> "sample", push |-> FALSE,
                       uses |-> {loopFlag},
                       delayTime |-> <<125, 1000>>, feedback |-> <<3, 10>>]
                 ELSE [op |-> "distortion", input |-> "sample", push |-> FALSE,
                       uses |-> {loopFlag}, amount |-> 10]
    [] pc = 10 -> IF loopFlag
                  THEN [op |-> "distortion", input |-> "tmp", push |-> TRUE,
                        uses |-> {loopFlag}, amount |-> 3]
                  ELSE [op |-> "bitcrush", input |-> "tmp", push |-> TRUE,
                        uses |-> {loopFlag}, bits |-> 6]

\* generateVariations with no buffer: throw new Error('No audio sample loaded')
apGenerateVariationsNoSample ==
  /\ client = "direct"
  /\ genPc = 0
  /\ apOriginalBuffer = Null
  /\ apThrown' = "No audio sample loaded"
  /\ UNCHANGED <<client, pageVars, hookVars, apOriginalBuffer, apVariations, apIsProcessing,
                 loading, genVars, rngVars, histVars, callsStarted, probeVars>>

\* generateVariations(isLoop) up to the first await: this.isProcessing = true
apGenerateVariationsStart(isLoopArg) ==
  /\ client = "direct"
  /\ genPc = 0
  /\ apOriginalBuffer # Null
  /\ callsStarted < MaxCalls
  /\ apIsProcessing' = TRUE
  /\ genPc' = 1
  /\ genSample' = apOriginalBuffer
  /\ genIsLoop' = isLoopArg
  /\ generatedVariations' = <<>>
  /\ genTmp' = Null
  /\ stageFlags' = {}
  /\ callsStarted' = callsStarted + 1
  /\ UNCHANGED <<client, pageVars, hookVars, apOriginalBuffer, apVariations, apThrown, loading,
                 genBalance, rngVars, histVars, probeVars>>

apGenerateVariationsStep ==
  /\ client = "direct"
  /\ genPc \in 1..ApLastStage
  /\ LET r == applyStage(apStage(genPc, genIsLoop), genSample, genTmp, rngSeed, rngPos)
     IN /\ generatedVariations' = IF r.push THEN pushVariation(generatedVariations, r.out)
                                  ELSE generatedVariations
        /\ genTmp' = IF r.push THEN Null ELSE r.out
        /\ rngPos' = rngPos + r.draws
        /\ stageFlags' = r.flags
  /\ genPc' = genPc + 1
  /\ UNCHANGED <<client, pageVars, hookVars, apVars, loading, genSample, genBalance, genIsLoop,
                 rngSeed, histVars, callsStarted, probeVars>>

\* this.variations = variations; return; finally: this.isProcessing = false
apGenerateVariationsFinish ==
  /\ client = "direct"
  /\ genPc = ApLastStage + 1
  /\ apVariations' = generatedVariations
  /\ apIsProcessing' = FALSE
  /\ apThrown' = NoError
  /\ genPc' = 0
  /\ genSample' = Null
  /\ genIsLoop' = FALSE
  /\ generatedVariations' = <<>>
  /\ genTmp' = Null
  /\ stageFlags' = {}
  /\ UNCHANGED <<client, pageVars, hookVars, apOriginalBuffer, loading, genBalance, rngVars,
                 histVars, callsStarted, probeVars>>

\* a stage throws: the error is logged and rethrown, finally clears isProcessing
apGenerateVariationsFailed ==
  /\ client = "direct"
  /\ genPc \in 1..ApLastStage
  /\ apThrown' = "Failed to generate variations"
  /\ apIsProcessing' = FALSE
  /\ genPc' = 0
  /\ genSample' = Null
  /\ genIsLoop' = FALSE
  /\ generatedVariations' = <<>>
  /\ genTmp' = Null
  /\ stageFlags' = {}
  /\ UNCHANGED <<client, pageVars, hookVars, apOriginalBuffer, apVariations, loading, genBalance,
                 rngVars, histVars, callsStarted, probeVars>>
Next ==
  \/ \E balance \in BalanceInputs : setProcessingBalance(balance)
  \/ \E file \in Files : loadAudioFileRejected(file)
  \/ \E file \in Files : loadAudioFileStart(file)
  \/ \E n \in 1..MaxCalls : loadAudioFileDecoded(n)
  \/ \E n \in 1..MaxCalls : loadAudioFileDecodeFailed(n)
  \/ generateVariationsNoSample
  \/ generateVariationsStart
  \/ generateVariationsStep
  \/ generateVariationsFinish
  \/ generateVariationsFailed
  \/ \E file \in Files : apLoadAudioFileStart(file)
  \/ \E n \in 1..MaxCalls : apLoadAudioFileDecoded(n)
  \/ \E n \in 1..MaxCalls : apLoadAudioFileFailed(n)
  \/ apGenerateVariationsNoSample
  \/ \E isLoopArg \in BOOLEAN : apGenerateVariationsStart(isLoopArg)
  \/ apGenerateVariationsStep
  \/ apGenerateVariationsFinish
  \/ apGenerateVariationsFailed

Spec == Init /\ [][Next]_vars

\* ------------------------------------------------ sessions on silent input
\* A hook whose first loadAudioFile call is waiting for the decoder, the file
\* being silence, with the balance slider at either end or in the middle, or
\* an AudioProcessor used directly with such a call waiting; the session
\* then generates once.
SilentNames == {"silent", "silentLong"}

InitSilence ==
  /\ client \in {"hook", "direct"}
  /\ originalSample = Null
  /\ variations = <<>>
  /\ isProcessing = (client = "hook")
  /\ error = NoError
  /\ mlBalance \in (IF client = "hook" THEN {0, Scale \div 2, Scale} ELSE {Scale \div 2})
  /\ isLoop = FALSE
  /\ apConstructed
  /\ loading \in {<<AudioFile(name)>> : name \in SilentNames}
  /\ noRun
  /\ rngSeed \in 0..(NumSeeds - 1)
  /\ callsStarted = MaxCalls - 1
  /\ noProbe
  /\ mlModule = "enhanced"
  /\ noPlayback

NextSilence ==
  \/ loadAudioFileDecoded(1)
  \/ generateVariationsStart
  \/ generateVariationsStep
  \/ generateVariationsFinish
  \/ apLoadAudioFileDecoded(1)
  \/ \E isLoopArg \in BOOLEAN : apGenerateVariationsStart(isLoopArg)
  \/ apGenerateVariationsStep
  \/ apGenerateVariationsFinish

SpecSilence == InitSilence /\ [][NextSilence]_vars

\* ------------------------------------------- sessions that generate again
\* A hook that has loaded a sample and has the balance at 0; the session
\* generates up to MaxCalls times.
RepeatNames == {"click", "stereoClick", "train"}

loadedHook(buffer) ==
  /\ originalSample = buffer
  /\ apOriginalBuffer = buffer
  /\ isLoop = isLikelyLoop(extractFeatures(buffer))
  /\ variations = <<>>
  /\ isProcessing = FALSE
  /\ error = NoError
  /\ apVariations = [i \in 1..8 |-> Null]
  /\ apIsProcessing = FALSE
  /\ apThrown = NoError

InitRepeat ==
  /\ client = "hook"
  /\ \E name \in RepeatNames : loadedHook(DecodedSample(name))
  /\ mlBalance = 0
  /\ loading = <<>>
  /\ noRun
  /\ rngSeed \in 0..(NumSeeds - 1)
  /\ callsStarted = 0
  /\ noProbe
  /\ mlModule = "enhanced"
  /\ noPlayback

NextRepeat ==
  \/ generateVariationsStart
  \/ generateVariationsStep
  \/ generateVariationsFinish

SpecRepeat == InitRepeat /\ [][NextRepeat]_vars

\* ---------------------------------------------------- sessions on the page
\* The page (DrumVariationApp) over the hook: handleFileDrop calls
\* loadAudioFile for every audio file dropped, whatever is in progress; the
\* Generate button is disabled while !originalSample || isProcessing. The
\* session starts on a fresh hook or on one that has loaded a sample, with
\* either MLProcessor module behind the hook's import; on the "lib" module,
\* which has no isLikelyLoop, the sessions only load.
PageNames == {"click", "train"}
PageFiles == {AudioFile(name) : name \in PageNames} \cup {CorruptFile}

InitPage ==
  /\ client = "page"
  /\ mlModule \in {"enhanced", "lib"}
  /\ \/ hookConstructed /\ apConstructed
     \/ /\ mlModule = "enhanced"
        /\ mlBalance = Scale \div 2
        /\ \E name \in PageNames : loadedHook(DecodedSample(name))
  /\ loading = <<>>
  /\ noRun
  /\ rngSeed = 0
  /\ callsStarted = 0
  /\ noProbe
  /\ noPlayback

NextPage ==
  \/ \E file \in PageFiles : loadAudioFileStart(file)
  \/ \E n \in 1..MaxCalls : loadAudioFileDecoded(n)
  \/ \E n \in 1..MaxCalls : loadAudioFileDecodeFailed(n)
  \/ \E n \in 1..MaxCalls : loadAudioFileClassifyFailed(n)
  \/ generateVariationsStart
  \/ generateVariationsStep
  \/ generateVariationsFinish
  \/ generateVariationsFailed

SpecPage == InitPage /\ [][NextPage]_vars

\* ------------------------------------------------------------- playback
\* audioSources holds every AudioBufferSourceNode created so far: the id it
\* was started for and whether it is "playing", "stopped" (stop() was called,
\* it is silent and its ended event is still to be dispatched) or "ended"
\* (the event was dispatched to onended). playbackSource is an index into
\* it or NoSource.
MaxSources == 3
PlayIds == <<"original", "variation-0", "variation-1">>

\* AudioProcessor.playBuffer(buffer): createBufferSource, connect, start
apPlayBuffer(sources, id) == Append(sources, [id |-> id, state |-> "playing"])

\* source.stop(): a playing source falls silent; its ended event follows
stopSource(sources, k) ==
  IF sources[k].state = "playing"
  THEN [sources EXCEPT ![k].state = "stopped"]
  ELSE sources

\* the hook's playBuffer(buffer, id)
playBuffer(id) ==
  LET stopped == IF playbackSource # NoSource
                 THEN stopSource(audioSources, playbackSource)
                 ELSE audioSources
  IN /\ Len(audioSources) < MaxSources
     /\ IF currentlyPlaying = id
        THEN /\ audioSources' = stopped
             /\ playbackSource' = NoSource
             /\ currentlyPlaying' = NoId
        ELSE /\ audioSources' = apPlayBuffer(stopped, id)
             /\ playbackSource' = Len(stopped) + 1
             /\ currentlyPlaying' = id
     /\ UNCHANGED <<client, mlModule, hookVars, apVars, loading, genVars, rngVars,
                    histVars, callsStarted, probeVars>>

\* playOriginal: if (originalSample) playBuffer(originalSample, 'original')
playOriginal ==
  /\ client = "page"
  /\ originalSample # Null
  /\ playBuffer(PlayIds[1])

\* playVariation(index): if (variations && variations[index]) playBuffer(...)
playVariation(index) ==
  /\ client = "page"
  /\ index < Len(variations)
  /\ playBuffer(PlayIds[index + 2])

\* stopPlayback (the Stop button, WaveformDisplay's onPlaybackComplete)
stopPlayback ==
  /\ client = "page"
  /\ playbackSource # NoSource
  /\ audioSources' = stopSource(audioSources, playbackSource)
  /\ playbackSource' = NoSource
  /\ currentlyPlaying' = NoId
  /\ UNCHANGED <<client, mlModule, hookVars, apVars, loading, genVars, rngVars,
                 histVars, callsStarted, probeVars>>

\* the ended event of source k, at the end of its buffer or after stop():
\* source.onended = () => { setCurrentlyPlaying(null); setPlaybackSource(null) }
sourceEnded(k) ==
  /\ client = "page"
  /\ k \in 1..Len(audioSources)
  /\ audioSources[k].state \in {"playing", "stopped"}
  /\ audioSources' = [audioSources EXCEPT ![k].state = "ended"]
  /\ playbackSource' = NoSource
  /\ currentlyPlaying' = NoId
  /\ UNCHANGED <<client, mlModule, hookVars, apVars, loading, genVars, rngVars,
                 histVars, callsStarted, probeVars>>

\* A page whose hook has loaded the click one-shot and has one call left;
\* the session generates and plays the original and the first two
\* variations.
InitPlayback ==
  /\ client = "page"
  /\ mlModule = "enhanced"
  /\ mlBalance = Scale \div 2
  /\ loadedHook(DecodedSample("click"))
  /\ loading = <<>>
  /\ noRun
  /\ rngSeed = 0
  /\ callsStarted = MaxCalls - 1
  /\ noProbe
  /\ noPlayback

NextPlayback ==
  \/ generateVariationsStart
  \/ generateVariationsStep
  \/ generateVariationsFinish
  \/ playOriginal
  \/ \E index \in 0..1 : playVariation(index)
  \/ stopPlayback
  \/ \E k \in 1..MaxSources : sourceEnded(k)

SpecPlayback == InitPlayback /\ [][NextPlayback]_vars

\* ------------------------------------------ a function applied by itself
\* A caller that holds a processor and applies one of its functions once.
InitProbe ==
  /\ client = "probe"
  /\ hookConstructed
  /\ apConstructed
  /\ loading = <<>>
  /\ noRun
  /\ rngSeed = 0
  /\ callsStarted = 0
  /\ noProbe
  /\ mlModule = "enhanced"
  /\ noPlayback

\* every mono buffer of up to MaxProbeLen samples over four sample values,
\* at a rate that makes the analysis window one sample wide, and three of
\* the decoded samples
MaxProbeLen == 6
ProbeRate == SampleRate \div 5
ProbeValues == {0, Scale \div 4, -(Scale \div 2), Scale}

ProbeBuffers ==
  UNION {{AudioBuffer(1, len, ProbeRate, [c \in 0..0 |-> d]) :
            d \in [0..(len - 1) -> ProbeValues]} : len \in 0..MaxProbeLen}
    \cup {DecodedSample(name) : name \in {"train", "threePeaks", "silentLong"}}

\* feature sets as far as isLikelyLoop reads them: up to MaxProbePeaks peaks,
\* durations around two seconds and the non-numbers
MaxProbePeaks == 5
ProbeDurations == {0, 2 * Scale - 1, 2 * Scale, 2 * Scale + 1, 3 * Scale, NaN, PosInf}

ProbeFeatureSets ==
  {[significantPeaks |-> [p \in 1..k |-> [index |-> p, value |-> Scale, time |-> 0]],
    duration |-> d] : k \in 0..MaxProbePeaks, d \in ProbeDurations}

\* mlProcessor.extractFeatures(buffer), then mlProcessor.isLikelyLoop(features),
\* as loadAudioFile of the hook calls them
probeClassify(buffer) ==
  /\ client = "probe"
  /\ probeInput = Null
  /\ probeInput' = [fn |-> "extractFeatures", arg |-> buffer]
  /\ probeOutput' = [features |-> extractFeatures(buffer),
                     isLoop |-> isLikelyLoop(extractFeatures(buffer))]
  /\ UNCHANGED <<client, pageVars, hookVars, apVars, loading, genVars, rngVars, histVars,
                 callsStarted, delayCall>>

\* mlProcessor.isLikelyLoop(features)
probeIsLikelyLoop(features) ==
  /\ client = "probe"
  /\ probeInput = Null
  /\ probeInput' = [fn |-> "isLikelyLoop", arg |-> features]
  /\ probeOutput' = [isLoop |-> isLikelyLoop(features)]
  /\ UNCHANGED <<client, pageVars, hookVars, apVars, loading, genVars, rngVars, histVars,
                 callsStarted, delayCall>>

NextFeatures ==
  \/ \E buffer \in ProbeBuffers : probeClassify(buffer)
  \/ \E features \in ProbeFeatureSets : probeIsLikelyLoop(features)

SpecFeatures == InitProbe /\ [][NextFeatures]_vars

\* ------------------------------------------- processDelay, tap by tap
\* The two processDelay of the repository, one step per tap of the while
\* loop: "enhanced" is the one with the tap counter, "core" the one of
\* lib/audioProcessor.js, whose loop tests the gain alone.
\* delayCall holds the locals of the call: the current channel, tapCount,
\* the output channels written so far; currentFeedback is feedback^(tapCount+1).
DelayNames == {"click", "stereoClick", "silentLong"}
FeedbackInputs == {<<0, 1>>, <<3, 10>>, <<1, 2>>, <<1, 1>>, <<2, 1>>}

\* taps the model follows a loop for before it stops looking
MaxTapSteps == 12

delayOutputLength(impl, buffer) ==
  IF impl = "enhanced" THEN buffer.length + extraSamples(buffer)
  ELSE buffer.length + buffer.sampleRate

\* createBuffer zero-fills; `outputData[i] = inputData[i]`
copyOriginal(inputData, len, outLen) ==
  [k \in 0..(outLen - 1) |-> IF k < len THEN inputData[k] ELSE 0]

\* a pass that writes tap t at t times the delay, a train of echoes
addTapSpread(outputData, outLen, inputData, len, delaySamples, feedback, t) ==
  [k \in 0..(outLen - 1) |->
     IF k - t * delaySamples >= 0 /\ k - t * delaySamples < len
     THEN Add(outputData[k], tapSample(inputData[k - t * delaySamples], feedback, t))
     ELSE outputData[k]]

\* one pass of the inner for loop: outputData[i + delaySamples] +=
\* inputData[i] * currentFeedback where i + delaySamples < outputData.length
addTap(outputData, outLen, inputData, len, delaySamples, feedback, t) ==
  [k \in 0..(outLen - 1) |->
     IF k - delaySamples >= 0 /\ k - delaySamples < len
     THEN Add(outputData[k], tapSample(inputData[k - delaySamples], feedback, t))
     ELSE outputData[k]]

\* the condition of the while loop
tapLoopContinues(call) ==
  /\ tapGainAboveFloor(call.feedback, call.tapCount + 1)
  /\ (call.impl = "enhanced" => call.tapCount < delayMaxTaps(call.buffer))

\* processDelay(buffer, delayTime, feedback) up to the first test of the
\* while loop for channel 0
delayStart(impl, buffer, delayTime, feedback) ==
  /\ client = "probe"
  /\ delayCall = Null
  /\ probeInput = Null
  /\ probeInput' = [fn |-> "processDelay", arg |-> buffer]
  /\ delayCall' =
       [impl |-> impl, buffer |-> buffer, feedback |-> feedback,
        delaySamples |-> FloorFrac(buffer.sampleRate, delayTime[1], delayTime[2]),
        channel |-> 0, tapCount |-> 0, done |-> FALSE,
        output |-> [c \in 0..(buffer.numberOfChannels - 1) |->
                      IF c = 0
                      THEN copyOriginal(getChannelData(buffer, 0), buffer.length,
                                        delayOutputLength(impl, buffer))
                      ELSE silence(delayOutputLength(impl, buffer))]]
  /\ UNCHANGED <<client, pageVars, hookVars, apVars, loading, genVars, rngVars, histVars,
                 callsStarted, probeOutput>>

\* one iteration of the while loop
delayTap ==
  /\ delayCall # Null
  /\ ~delayCall.done
  /\ tapLoopContinues(delayCall)
  /\ delayCall.tapCount < MaxTapSteps
  /\ delayCall' =
       [delayCall EXCEPT
          !.output[delayCall.channel] =
             addTap(@, delayOutputLength(delayCall.impl, delayCall.buffer),
                    getChannelData(delayCall.buffer, delayCall.channel),
                    delayCall.buffer.length, delayCall.delaySamples,
                    delayCall.feedback, delayCall.tapCount + 1),
          !.tapCount = @ + 1]
  /\ UNCHANGED <<client, pageVars, hookVars, apVars, loading, genVars, rngVars, histVars,
                 callsStarted, probeInput, probeOutput>>

\* the while loop ends and the channel loop goes on
delayNextChannel ==
  /\ delayCall # Null
  /\ ~delayCall.done
  /\ ~tapLoopContinues(delayCall)
  /\ delayCall.channel + 1 < delayCall.buffer.numberOfChannels
  /\ delayCall' =
       [delayCall EXCEPT
          !.channel = @ + 1,
          !.tapCount = 0,
          !.output[delayCall.channel + 1] =
             copyOriginal(getChannelData(delayCall.buffer, delayCall.channel + 1),
                          delayCall.buffer.length,
                          delayOutputLength(delayCall.impl, delayCall.buffer))]
  /\ UNCHANGED <<client, pageVars, hookVars, apVars, loading, genVars, rngVars, histVars,
                 callsStarted, probeInput, probeOutput>>

\* the last channel is done: return processedBuffer
delayReturn ==
  /\ delayCall # Null
  /\ ~delayCall.done
  /\ ~tapLoopContinues(delayCall)
  /\ delayCall.channel + 1 = delayCall.buffer.numberOfChannels
  /\ delayCall' = [delayCall EXCEPT !.done = TRUE]
  /\ probeOutput' =
       AudioBuffer(delayCall.buffer.numberOfChannels,
                   delayOutputLength(delayCall.impl, delayCall.buffer),
                   delayCall.buffer.sampleRate, delayCall.output)
  /\ UNCHANGED <<client, pageVars, hookVars, apVars, loading, genVars, rngVars, histVars,
                 callsStarted, probeInput>>

NextDelay ==
  \/ \E impl \in {"enhanced", "core"}, name \in DelayNames, feedback \in FeedbackInputs :
       delayStart(impl, DecodedSample(name), <<125, 1000>>, feedback)
  \/ delayTap
  \/ delayNextChannel
  \/ delayReturn

SpecDelay == InitProbe /\ [][NextDelay]_vars

\* ------------------------------------------- one stage applied by itself
\* A caller applies one effect of the AudioProcessor, or generateVariation of
\* the MLProcessor, to a buffer, and may pass the result of a bit crush to
\* the same bit crush again.
\* The calls: every effect with the parameters the recipes use and with
\* parameters from the rest of their documented ranges.
EffectSteps ==
  {[op |-> "pitch", input |-> "sample", push |-> TRUE, uses |-> {},
    halfSemitones |-> h] : h \in {1, 2, 6, -2, -6}}
    \cup {[op |-> "bitcrush", input |-> "sample", push |-> TRUE, uses |-> {},
           bits |-> b] : b \in 1..10}
    \cup {[op |-> "distortion", input |-> "sample", push |-> TRUE, uses |-> {},
           amount |-> a] : a \in {3, 8, 10}}
    \cup {[op |-> "transient", input |-> "sample", push |-> TRUE, uses |-> {},
           attackGain |-> g[1], sustainGain |-> g[2]] :
            g \in {<<<<11, 10>>, <<95, 100>>>>, <<<<13, 10>>, <<85, 100>>>>}}
    \cup {[op |-> "variation", input |-> "sample", push |-> TRUE, uses |-> {},
           amount |-> a, focus |-> f] :
            a \in {0, Scale \div 2, Scale},
            f \in {"attack", "decay", "sustain", "release", "tone", "balanced"}}
    \cup {[op |-> "reverb", input |-> "sample", push |-> TRUE, uses |-> {},
           roomSize |-> r, wetDry |-> <<3, 10>>] :
            r \in {<<1, 10>>, <<3, 10>>, <<6, 10>>, <<1, 1>>}}
    \cup {[op |-> "delay", input |-> "sample", push |-> TRUE, uses |-> {},
           delayTime |-> d, feedback |-> <<3, 10>>] :
            d \in {<<125, 1000>>, <<3, 4>>, <<5, 4>>}}

\* one sample of every value between -1 and 1
rampBuffer ==
  AudioBuffer(1, 2 * Scale + 1, SampleRate,
              [c \in 0..0 |-> [i \in 0..(2 * Scale) |-> i - Scale]])

\* the buffers: the short samples for every call, the ramp for the bit
\* crush and the pitch shift, a loop for the calls that lengthen their input
EffectCalls ==
  (EffectSteps
     \X {DecodedSample(name) : name \in {"silent", "click", "stereoClick", "train"}})
    \cup ({step \in EffectSteps : step.op \in {"bitcrush", "pitch"}} \X {rampBuffer})
    \cup ({step \in EffectSteps :
             \/ step.op = "reverb" /\ step.roomSize = <<6, 10>>
             \/ step.op = "delay" /\ step.delayTime = <<3, 4>>}
            \X {DecodedSample("silentLong")})

\* await audioProcessor.process...(buffer, ...) or
\* await mlProcessor.generateVariation(buffer, amount, {focus})
probeStage(step, buffer) ==
  /\ client = "probe"
  /\ probeInput = Null
  /\ probeInput' = [fn |-> step.op, step |-> step, arg |-> buffer, first |-> buffer,
                    pass |-> 1]
  /\ probeOutput' = applyStage(step, buffer, buffer, rngSeed, rngPos).out
  /\ UNCHANGED <<client, pageVars, hookVars, apVars, loading, genVars, rngVars, histVars,
                 callsStarted, delayCall>>

\* processBitCrush(crushed, bits) for the result of processBitCrush(buffer, bits)
probeStageAgain ==
  /\ client = "probe"
  /\ probeInput # Null
  /\ probeInput.fn = "bitcrush"
  /\ probeInput.pass = 1
  /\ probeInput' = [probeInput EXCEPT !.arg = probeOutput, !.pass = 2]
  /\ probeOutput' = applyStage(probeInput.step, probeOutput, probeOutput,
                               rngSeed, rngPos).out
  /\ UNCHANGED <<client, pageVars, hookVars, apVars, loading, genVars, rngVars, histVars,
                 callsStarted, delayCall>>

\* The same calls with the objects they read and write told apart: the heap
\* maps the name of an object to its content, and a FeatureSet holds the name
\* of its significantPeaks array.
\* const modified = { ...features }: a new object with the fields of the old
\* one, the reference to the peaks array included; the writes that follow go
\* to the object returned here
spreadObjectAlias(heap, from, to) == [heap |-> heap, ref |-> from]

spreadObject(heap, from, to) == [heap |-> (to :> heap[from]) @@ heap, ref |-> to]

\* modifyFeatures(features, amount, options, isLoop): the fields are assigned
\* to the copy; for a loop with peaks, map() builds a new array of new peak
\* objects and the copy is made to hold it
modifyFeaturesOnHeap(heap, amount, focus, isLoopArg, seed, pos) ==
  LET features == [heap["features"] EXCEPT !.significantPeaks = heap[@]]
      values == modifyFeatures(features, amount, focus, isLoopArg, seed, pos)
      modified == spreadObject(heap, "features", "modified")
      assigned == [values EXCEPT
                     !.significantPeaks = modified.heap[modified.ref].significantPeaks]
  IN IF isLoopArg /\ Len(features.significantPeaks) > 0
     THEN [heap |-> (modified.ref :> [assigned EXCEPT !.significantPeaks = "mapped"])
                      @@ ("mapped" :> values.significantPeaks) @@ modified.heap,
           ref |-> modified.ref]
     ELSE [heap |-> (modified.ref :> assigned) @@ modified.heap, ref |-> modified.ref]

\* the heap when the call returns: every effect writes to the channels of
\* its createBuffer() result, generateVariation to the copy of the features
\* and to the channels of synthesizeAudio's newBuffer
callOnHeap(step, heap, seed, pos) ==
  IF step.op = "variation"
  THEN LET isLoopArg == isLikelyLoop([heap["features"] EXCEPT !.significantPeaks = heap[@]])
           after == modifyFeaturesOnHeap(heap, step.amount, step.focus, isLoopArg, seed, pos)
       IN ("newBuffer" :>
             synthesizeAudio(heap["buffer"],
                             [after.heap[after.ref] EXCEPT
                                !.significantPeaks = after.heap[@]],
                             isLoopArg)) @@ after.heap
  ELSE ("processedBuffer" :>
          applyStage(step, heap["buffer"], heap["buffer"], seed, pos).out) @@ heap

\* one call; the heap before it holds the caller's buffer and, for
\* generateVariation, the FeatureSet extractFeatures has just returned
probeCallOnHeap(step, buffer) ==
  /\ client = "probe"
  /\ probeInput = Null
  /\ LET heap == IF step.op = "variation"
                 THEN ("features" :> [extractFeatures(buffer) EXCEPT
                                        !.significantPeaks = "significantPeaks"])
                        @@ ("significantPeaks" :> extractFeatures(buffer).significantPeaks)
                        @@ ("buffer" :> buffer)
                 ELSE ("buffer" :> buffer)
     IN /\ probeInput' = [fn |-> "heap", step |-> step, heap |-> heap]
        /\ probeOutput' = callOnHeap(step, heap, rngSeed, rngPos)
  /\ UNCHANGED <<client, pageVars, hookVars, apVars, loading, genVars, rngVars, histVars,
                 callsStarted, delayCall>>

\* bufferToWav(buffer): the header fields and the interleaved 16-bit samples.
\* A sample is clamped to [-1, 1], multiplied by volume = 0.9 and by 32768
\* (negative) or 32767, and setInt16 drops the fraction of the product
\* (NaN is stored as 0).
bufferToWav(buffer) ==
  LET numChannels == buffer.numberOfChannels
      clamped(x) == Max(-Scale, Min(Scale, x))
      pcmSample(x) ==
        IF clamped(x) = NaN THEN 0
        ELSE IF clamped(x) < 0
             THEN -(((-clamped(x)) * 9 * 32768) \div (10 * Scale))
             ELSE (clamped(x) * 9 * 32767) \div (10 * Scale)
  IN [format |-> 1, numChannels |-> numChannels, sampleRate |-> buffer.sampleRate,
      byteRate |-> buffer.sampleRate * numChannels * 2,
      blockAlign |-> numChannels * 2, bitDepth |-> 16,
      dataLength |-> buffer.length * numChannels * 2,
      data |-> [k \in 0..(buffer.length * numChannels - 1) |->
                  pcmSample(getChannelData(buffer, k % numChannels)[k \div numChannels])]]

\* audioProcessor.bufferToWav(buffer)
probeBufferToWav(buffer) ==
  /\ client = "probe"
  /\ probeInput = Null
  /\ probeInput' = [fn |-> "bufferToWav", arg |-> buffer]
  /\ probeOutput' = bufferToWav(buffer)
  /\ UNCHANGED <<client, pageVars, hookVars, apVars, loading, genVars, rngVars, histVars,
                 callsStarted, delayCall>>

NextEffects ==
  \/ \E call \in EffectCalls : probeStage(call[1], call[2])
  \/ probeStageAgain
  \/ \E call \in EffectCalls : probeCallOnHeap(call[1], call[2])
  \/ \E buffer \in {call[2] : call \in EffectCalls} : probeBufferToWav(buffer)

SpecEffects == InitProbe /\ [][NextEffects]_vars

\* =================================================================== claims
\* every sample of every channel of a buffer is a finite number
samplesFinite(buffer) ==
  \A c \in 0..(buffer.numberOfChannels - 1) :
    \A i \in 0..(buffer.length - 1) : IsFinite(buffer.data[c][i])

\* C1: generation never stores a batch of another size than 8: the hook's
\* variations are empty or 8 buffers, the AudioProcessor's variations are 8
\* nulls or 8 buffers, a run that reaches its end has pushed exactly 8, and
\* the 8 keep the recipe's order: every one has the channels of the input,
\* the seventh (made from the reverb) carries the reverb tail, the first six
\* have the length of the input.
C1_EightVariations ==
  /\ Len(variations) \in {0, 8}
  /\ Len(apVariations) = 8
  /\ \/ \A s \in 1..8 : apVariations[s] = Null
     \/ \A s \in 1..8 : apVariations[s] # Null
  /\ (client = "hook" /\ genPc = HookLastStage + 1) => Len(generatedVariations) = 8
  /\ (client = "direct" /\ genPc = ApLastStage + 1) => Len(generatedVariations) = 8
  /\ \A s \in 1..Len(variations) :
       /\ variations[s].numberOfChannels = originalSample.numberOfChannels
       /\ s <= 6 => variations[s].length = originalSample.length
       /\ s = 7 => variations[s].length =
                     originalSample.length + extraSamples(originalSample)

C1_Witness ==
  /\ client = "hook"
  /\ Len(variations) = 8
  /\ isLoop
  /\ batchBalance = Scale

\* C2: a feature set is classified as a loop exactly when it has more than
\* three significant peaks or its duration is strictly more than 2.0 seconds,
\* for isLikelyLoop by itself and for the classification of a buffer.
C2_LoopClassification ==
  /\ (probeInput # Null /\ probeInput.fn = "isLikelyLoop") =>
       (probeOutput.isLoop <=>
          \/ Len(probeInput.arg.significantPeaks) > 3
          \/ /\ probeInput.arg.duration # NaN
             /\ probeInput.arg.duration > 2 * Scale)
  /\ (probeInput # Null /\ probeInput.fn = "extractFeatures") =>
       (probeOutput.isLoop <=>
          \/ Len(probeOutput.features.significantPeaks) > 3
          \/ probeInput.arg.length > 2 * probeInput.arg.sampleRate)

\* three peaks and exactly two seconds: not a loop
C2_Witness ==
  /\ probeInput # Null
  /\ probeInput.fn = "extractFeatures"
  /\ Len(probeOutput.features.significantPeaks) = 3
  /\ probeInput.arg.length = 2 * probeInput.arg.sampleRate
  /\ ~probeOutput.isLoop

\* C3: the loop flag computed when the sample was loaded is the one every
\* stage of a generation run of the hook uses: each flag the stage just
\* executed branched on equals the hook's isLoop.
C3_OneLoopFlag ==
  (client = "hook" /\ genPc # 0) => \A flag \in stageFlags : flag = isLoop

\* C4: for an input of zeros only, generation completes without an error and
\* every sample of every buffer it makes or stores is finite.
C4_SilenceStaysFinite ==
  /\ error = NoError
  /\ apThrown = NoError
  /\ \A s \in 1..8 : apVariations[s] # Null => samplesFinite(apVariations[s])
  /\ \A s \in 1..Len(variations) : samplesFinite(variations[s])
  /\ \A s \in 1..Len(generatedVariations) : samplesFinite(generatedVariations[s])
  /\ genTmp # Null => samplesFinite(genTmp)

C4_Witness ==
  /\ originalSample # Null
  /\ originalSample.length = LongLen
  /\ \A i \in 0..(LongLen - 1) : originalSample.data[0][i] = 0
  /\ Len(variations) = 8
  /\ batchBalance = Scale

\* C5: the significant peaks of a buffer are in strictly increasing index
\* order, and each one's value is more than 0.3 times the largest absolute
\* sample of the channel.
C5_PeaksOrdered ==
  (probeInput # Null /\ probeInput.fn = "extractFeatures") =>
    LET peaks == probeOutput.features.significantPeaks
        data == probeInput.arg.data[0]
    IN /\ \A p \in 1..(Len(peaks) - 1) : peaks[p].index < peaks[p + 1].index
       /\ \A p \in 1..Len(peaks) :
            \A i \in 0..(probeInput.arg.length - 1) :
              10 * peaks[p].value > 3 * Abs(data[i])

\* several peaks, and a sample that is a local maximum below the threshold
C5_Witness ==
  /\ probeInput # Null
  /\ probeInput.fn = "extractFeatures"
  /\ Len(probeOutput.features.significantPeaks) >= 2
  /\ probeInput.arg.length = MaxProbeLen
  /\ probeInput.arg.data[0][0] = Scale \div 4
  /\ probeInput.arg.data[0][1] = 0

\* C6: no numeric field of an extracted feature set is NaN or infinite, a
\* buffer of length 0 included.
C6_FeaturesFinite ==
  (probeInput # Null /\ probeInput.fn = "extractFeatures") =>
    LET features == probeOutput.features
    IN /\ \A field \in {"attackTime", "decayTime", "sustainLevel", "releaseTime",
                         "energy", "spectralCentroid", "peakValue", "peakIndex",
                         "duration", "dynamicRange", "transientDensity"} :
            IsFinite(features[field])
       /\ \A p \in 1..Len(features.significantPeaks) :
            /\ IsFinite(features.significantPeaks[p].value)
            /\ IsFinite(features.significantPeaks[p].time)

\* C7: a run that fails at a stage stores nothing of what it made: the
\* stored variations are the ones from before the run, one error is
\* reported, and the processing flag is cleared.
C7_FailureStoresNothing ==
  [][/\ (client = "hook" /\ genPc \in 1..HookLastStage /\ genPc' = 0) =>
          /\ variations' = variations
          /\ error = NoError
          /\ error' = "Failed to generate variations"
          /\ ~isProcessing'
          /\ generatedVariations' = <<>>
     /\ (client = "direct" /\ genPc \in 1..ApLastStage /\ genPc' = 0) =>
          /\ apVariations' = apVariations
          /\ apThrown' = "Failed to generate variations"
          /\ ~apIsProcessing'
          /\ generatedVariations' = <<>>]_vars

\* a run failed after stages that drew random numbers had completed
C7_Witness ==
  /\ client = "hook"
  /\ error = "Failed to generate variations"
  /\ rngPos > 0
  /\ variations = <<>>
  /\ ~isProcessing
  /\ genPc = 0

\* C8: without a sample no run starts; generateVariations reports
\* 'No sample loaded' (the AudioProcessor throws 'No audio sample loaded')
\* and changes nothing else.
C8_NoSampleNoRun ==
  [][/\ (client = "hook" /\ originalSample = Null) =>
          (genPc' = 0 /\ generatedVariations' = <<>>)
     /\ (client = "direct" /\ apOriginalBuffer = Null) =>
          (genPc' = 0 /\ generatedVariations' = <<>>)
     /\ (error' = "No sample loaded" /\ error # "No sample loaded") =>
          /\ originalSample = Null
          /\ UNCHANGED <<originalSample, variations, isProcessing, mlBalance, isLoop,
                         apVars, genVars, rngVars>>
     /\ (apThrown' = "No audio sample loaded" /\ apThrown # "No audio sample loaded") =>
          /\ apOriginalBuffer = Null
          /\ UNCHANGED <<hookVars, apOriginalBuffer, apVariations, apIsProcessing,
                         genVars, rngVars>>]_vars

C8_Witness ==
  /\ client = "hook"
  /\ error = "No sample loaded"
  /\ originalSample = Null
  /\ variations = <<>>
  /\ ~isProcessing
  /\ genPc = 0

\* C9: a processDelay call never runs its tap loop more often than the cap
\* for its input (3 for a loop, 10 for a one-shot), whatever the feedback,
\* and every tap it adds has a gain above 0.01.
C9_TapsBounded ==
  delayCall # Null =>
    /\ delayCall.tapCount <= delayMaxTaps(delayCall.buffer)
    /\ \A t \in 1..delayCall.tapCount : tapGainAboveFloor(delayCall.feedback, t)

\* C10: two batches generated one after the other at balance 0 from the same
\* sample are equal in every slot.
C10_AllSlotsRepeat ==
  (/\ Len(variations) = 8
   /\ Len(prevVariations) = 8
   /\ batchBalance = 0
   /\ prevBalance = 0) => variations = prevVariations

\* C10, amended: two batches generated one after the other at balance 0 from
\* the same sample are equal in every slot but the seventh, the one made
\* from the reverb, whose impulse response is drawn from the random source.
C10_SlotsRepeatExceptReverb ==
  (/\ Len(variations) = 8
   /\ Len(prevVariations) = 8
   /\ batchBalance = 0
   /\ prevBalance = 0) =>
    \A s \in (1..8) \ {7} : variations[s] = prevVariations[s]

C10_Witness ==
  /\ Len(variations) = 8
  /\ Len(prevVariations) = 8
  /\ batchBalance = 0
  /\ prevBalance = 0
  /\ variations[7] # prevVariations[7]
  /\ rngPos > 0

\* C11: the buffer the eighth variation is made from depends on the loop
\* flag alone: for a loop it is processDistortion(processDelay(sample, 0.125,
\* 0.3), 3), for a one-shot processBitCrush(processDistortion(sample, heavy),
\* 6) with heavy = 8 in the hook and 10 in the AudioProcessor, whatever the
\* balance.  In the hook the flag is the isLoop stored at load time and the
\* buffer is the one the last generateVariation call is about to take.
C11_ExtremeSlot ==
  /\ (client = "hook" /\ genPc = HookLastStage) =>
       genTmp = IF isLoop
                THEN processDistortion(
                       processDelay(genSample, <<125, 1000>>, <<3, 10>>), 3)
                ELSE processBitCrush(processDistortion(genSample, 8), 6)
  /\ (client = "direct" /\ genPc = ApLastStage + 1) =>
       generatedVariations[8] =
         IF genIsLoop
         THEN processDistortion(
                processDelay(genSample, <<125, 1000>>, <<3, 10>>), 3)
         ELSE processBitCrush(processDistortion(genSample, 10), 6)

\* a loop's extreme buffer, with the delay tail, at a balance above 0.7
C11_Witness ==
  /\ client = "hook"
  /\ genPc = HookLastStage
  /\ isLoop
  /\ genBalance = Scale
  /\ genTmp.length = genSample.length + extraSamples(genSample)

\* C12: every buffer a run has pushed, and every buffer the hook has stored,
\* has the channel count of the input sample and at least its length.
C12_OutputShape ==
  /\ \A s \in 1..Len(generatedVariations) :
       /\ generatedVariations[s].numberOfChannels = genSample.numberOfChannels
       /\ generatedVariations[s].length >= genSample.length
  /\ client = "hook" =>
       \A s \in 1..Len(variations) :
         /\ variations[s].numberOfChannels = originalSample.numberOfChannels
         /\ variations[s].length >= originalSample.length

\* a stored batch for a two-channel sample, its reverb slot longer than the
\* input
C12_Witness ==
  /\ client = "hook"
  /\ Len(variations) = 8
  /\ originalSample.numberOfChannels = 2
  /\ variations[7].numberOfChannels = 2
  /\ variations[7].length > originalSample.length
  /\ variations[1].length = originalSample.length

\* C13: processPitchShift (up or down), processBitCrush, processDistortion,
\* processTransientEnhancement and the synthesizeAudio of generateVariation
\* return a buffer with the channel count, the length and the sample rate of
\* the buffer they were given, every channel holding that many samples.
C13_ShapeKept ==
  (/\ probeInput # Null
   /\ probeInput.fn \in {"pitch", "bitcrush", "distortion", "transient", "variation"}) =>
    /\ probeOutput.numberOfChannels = probeInput.arg.numberOfChannels
    /\ probeOutput.length = probeInput.arg.length
    /\ probeOutput.sampleRate = probeInput.arg.sampleRate
    /\ DOMAIN probeOutput.data = 0..(probeInput.arg.numberOfChannels - 1)
    /\ \A c \in DOMAIN probeOutput.data :
         DOMAIN probeOutput.data[c] = 0..(probeInput.arg.length - 1)

\* a two-channel buffer shifted up by three semitones
C13_Witness ==
  /\ probeInput # Null
  /\ probeInput.fn = "pitch"
  /\ probeInput.step.halfSemitones = 6
  /\ probeInput.arg.numberOfChannels = 2
  /\ probeOutput.length = ShortLen
  /\ probeOutput # probeInput.arg

\* C14: a call of an effect or of generateVariation leaves every object that
\* existed when it was entered as it was: the samples of the input buffer,
\* the fields of the FeatureSet given to modifyFeatures and the entries of
\* its significantPeaks array; what the call writes goes to new objects.
C14_InputsUntouched ==
  (probeInput # Null /\ probeInput.fn = "heap") =>
    /\ DOMAIN probeInput.heap \subseteq DOMAIN probeOutput
    /\ \A cell \in DOMAIN probeInput.heap : probeOutput[cell] = probeInput.heap[cell]

\* a loop whose variation holds a new peaks array with perturbed entries
C14_Witness ==
  /\ probeInput # Null
  /\ probeInput.fn = "heap"
  /\ probeInput.step.op = "variation"
  /\ probeInput.step.amount = Scale
  /\ "mapped" \in DOMAIN probeOutput
  /\ probeOutput["mapped"] # probeInput.heap["significantPeaks"]
  /\ probeOutput["modified"] # probeInput.heap["features"]
  /\ probeOutput["newBuffer"] # probeInput.heap["buffer"]

\* C15: processBitCrush applied with the same bit depth to its own result
\* returns that result again, sample for sample.
C15_BitCrushIdempotent ==
  (probeInput # Null /\ probeInput.fn = "bitcrush" /\ probeInput.pass = 2) =>
    probeOutput = probeInput.arg

\* the second pass over the crushed ramp of all sample values, three bits
C15_Witness ==
  /\ probeInput # Null
  /\ probeInput.fn = "bitcrush"
  /\ probeInput.pass = 2
  /\ probeInput.step.bits = 3
  /\ probeInput.first = rampBuffer
  /\ probeInput.arg # probeInput.first
  /\ probeOutput = probeInput.arg

\* C16: over input samples covering all of [-1, 1], the sample 1.0 included,
\* processBitCrush with bit depth b returns at most 2^b distinct values.
C16_AtMostTwoToTheBitsLevels ==
  (/\ probeInput # Null
   /\ probeInput.fn = "bitcrush"
   /\ probeInput.pass = 1
   /\ probeInput.arg = rampBuffer) =>
    Cardinality({probeOutput.data[0][i] : i \in 0..(probeOutput.length - 1)})
      <= Pow2(probeInput.step.bits)

\* C17: every sample s in [-1, 1] that bufferToWav writes is read back by a
\* reference decoder (int16 / 32768) as a value within 1/32767 of s.
\* With s = x / Scale and the stored integer k the distance is
\* |k * Scale - x * 32768| / (32768 * Scale).
C17_WavRoundTrip ==
  (probeInput # Null /\ probeInput.fn = "bufferToWav") =>
    \A k \in DOMAIN probeOutput.data :
      LET x == getChannelData(probeInput.arg, k % probeOutput.numChannels)
                 [k \div probeOutput.numChannels]
          distance == probeOutput.data[k] * Scale - x * 32768
      IN (x >= -Scale /\ x <= Scale) =>
           (distance <= Scale /\ -distance <= Scale)

\* C18: when generateVariation takes the loop path, the segments that
\* processLoopAudio reprocesses start and end at the indices of consecutive
\* peaks of the FeatureSet extractFeatures returned (the last one at the end
\* of the buffer), not at the indices modifyFeatures produced.
C18_SegmentsAtOriginalPeaks ==
  (/\ probeInput # Null
   /\ probeInput.fn = "heap"
   /\ probeInput.step.op = "variation"
   /\ isLikelyLoop([probeInput.heap["features"] EXCEPT
                      !.significantPeaks = probeInput.heap[@]])) =>
    LET original == probeInput.heap["significantPeaks"]
        used == probeOutput[probeOutput["modified"].significantPeaks]
        len == probeInput.heap["buffer"].length
    IN /\ Len(used) = Len(original)
       /\ \A p \in 1..Len(used) :
            /\ loopSegmentStart(used, p) = loopSegmentStart(original, p)
            /\ loopSegmentEnd(used, p, len) = loopSegmentEnd(original, p, len)

\* C19: modifyFeatures returns value * (1 + u * baseRange * amount *
\* focusFactor) for attackTime (0.7), decayTime (0.8), sustainLevel (0.6),
\* releaseTime (0.9) and spectralCentroid (0.6), each with its own draw u in
\* [-1, 1); focusFactor is 2 for the one field the focus names and 1 for the
\* others (1 for all when the focus is 'balanced'); energy gets range 0.2 for
\* a loop and 0.4 otherwise, and factor 1 whatever the focus.
C19_PerturbationFormula ==
  (/\ probeInput # Null
   /\ probeInput.fn = "heap"
   /\ probeInput.step.op = "variation") =>
    LET features == probeInput.heap["features"]
        modified == probeOutput["modified"]
        amount == probeInput.step.amount
        focus == probeInput.step.focus
        loop == isLikelyLoop([features EXCEPT !.significantPeaks = probeInput.heap[@]])
        u(k) == Sub(MulI(Rand(rngSeed, rngPos + k), 2), Scale)
        factor(name) == IF focus = name THEN 2 ELSE 1
        perturbed(value, k, rnum, rden, focusFactor) ==
          Mul(value, Add(Scale, MulI(Mul(MulC(u(k), rnum, rden), amount), focusFactor)))
    IN /\ \A k \in 0..5 : u(k) >= -Scale /\ u(k) < Scale
       /\ modified.attackTime = perturbed(features.attackTime, 0, 7, 10, factor("attack"))
       /\ modified.decayTime = perturbed(features.decayTime, 1, 8, 10, factor("decay"))
       /\ modified.sustainLevel =
            perturbed(features.sustainLevel, 2, 6, 10, factor("sustain"))
       /\ modified.releaseTime =
            perturbed(features.releaseTime, 3, 9, 10, factor("release"))
       /\ modified.spectralCentroid =
            perturbed(features.spectralCentroid, 4, 6, 10, factor("tone"))
       /\ modified.energy =
            perturbed(features.energy, 5, IF loop THEN 2 ELSE 4, 10, 1)

\* a loop varied in full with the attack focus: the decay time is perturbed
\* with factor 1, the attack time and the energy have moved
C19_Witness ==
  /\ probeInput # Null
  /\ probeInput.fn = "heap"
  /\ probeInput.step.op = "variation"
  /\ probeInput.step.amount = Scale
  /\ probeInput.step.focus = "attack"
  /\ "mapped" \in DOMAIN probeOutput
  /\ probeOutput["modified"].attackTime # probeInput.heap["features"].attackTime
  /\ probeOutput["modified"].decayTime # probeInput.heap["features"].decayTime
  /\ probeOutput["modified"].energy # probeInput.heap["features"].energy

\* C20: processReverb writes every wet contribution input[i] * impulse[j] at
\* index i + j and processDelay every echo of input[i] at index
\* i + delaySamples, and all these indices lie inside the extended output
\* buffer, so that none is skipped.
C20_TailWithinOutput ==
  /\ (probeInput # Null /\ probeInput.fn = "reverb") =>
       \A i \in 0..(probeInput.arg.length - 1) :
         \A j \in 0..(reverbImpulseLength(probeInput.arg, probeInput.step.roomSize) - 1) :
           i + j < probeOutput.length
  /\ (/\ probeInput # Null
      /\ probeInput.fn = "delay"
      /\ Len(delayTaps(probeInput.arg, probeInput.step.feedback)) > 0) =>
       \A i \in 0..(probeInput.arg.length - 1) :
         i + FloorFrac(probeInput.arg.sampleRate, probeInput.step.delayTime[1],
                       probeInput.step.delayTime[2]) < probeOutput.length

\* C21: every peak findSignificantPeaks returns is the largest magnitude
\* within one window on either side of its index: no sample at a distance of
\* at most windowSize, the one at index + windowSize included, has a larger
\* magnitude.
C21_PeakIsWindowMaximum ==
  (probeInput # Null /\ probeInput.fn = "extractFeatures") =>
    LET data == getChannelData(probeInput.arg, 0)
        windowSize == peakWindowSize(probeInput.arg.sampleRate)
        peaks == probeOutput.features.significantPeaks
    IN \A p \in 1..Len(peaks) :
         \A j \in (peaks[p].index - windowSize)..(peaks[p].index + windowSize) :
           (j >= 0 /\ j < probeInput.arg.length) =>
             ~Gt(Abs(data[j]), Abs(data[peaks[p].index]))

\* C22 as stated: an upward pitch shift reads every output sample from
\* inside the input (it cuts the input's tail and leaves no unwritten run),
\* and a downward one leaves output positions at the end unwritten.
C22_UpTruncatesDownPads ==
  (probeInput # Null /\ probeInput.fn = "pitch") =>
    LET len == probeInput.arg.length
        pitchRatio == pitchRatioOf(probeInput.step.halfSemitones)
        pastInput(i) == Floor(MulI(pitchRatio, i)) >= len
    IN /\ probeInput.step.halfSemitones > 0 => \A i \in 0..(len - 1) : ~pastInput(i)
       /\ probeInput.step.halfSemitones < 0 => \E i \in 0..(len - 1) : pastInput(i)

\* C22 as the code has it: the read index of output sample i is
\* i * pitchRatio. Shifting up (pitchRatio > 1), the output samples whose
\* read index lies past the input are left at zero, a trailing run of
\* silence; shifting down (pitchRatio < 1), every output sample is read from
\* inside the input, whose samples beyond (length - 1) * pitchRatio + 1 are
\* never read.
C22_UpPadsDownTruncates ==
  (probeInput # Null /\ probeInput.fn = "pitch") =>
    LET len == probeInput.arg.length
        pitchRatio == pitchRatioOf(probeInput.step.halfSemitones)
        pastInput(i) == Floor(MulI(pitchRatio, i)) >= len
    IN /\ probeInput.step.halfSemitones > 0 =>
            \A i \in 0..(len - 1) :
              pastInput(i) =>
                /\ \A k \in i..(len - 1) : pastInput(k)
                /\ \A c \in 0..(probeInput.arg.numberOfChannels - 1) :
                     probeOutput.data[c][i] = 0
       /\ probeInput.step.halfSemitones < 0 =>
            /\ \A i \in 0..(len - 1) : ~pastInput(i)
            /\ Floor(MulI(pitchRatio, len - 1)) + 1 <= len - 1

\* the ramp shifted up by three semitones: the input ends at 1.0, the output
\* in silence; the position before the silence still holds input content
C22_Witness ==
  /\ probeInput # Null
  /\ probeInput.fn = "pitch"
  /\ probeInput.step.halfSemitones = 6
  /\ probeInput.arg = rampBuffer
  /\ probeInput.arg.data[0][probeInput.arg.length - 1] = Scale
  /\ probeOutput.data[0][probeOutput.length - 1] = 0
  /\ \E i \in 1..(probeOutput.length - 1) :
       probeOutput.data[0][i - 1] > 0 /\ probeOutput.data[0][i] = 0

\* C23: the balance the hook holds is a number between 0 and 1 in every
\* state, whatever setProcessingBalance was called with (a value below 0,
\* above 1, or NaN), and so is the balance a generateVariations run works
\* with.
C23_BalanceInUnitInterval ==
  client = "hook" =>
    /\ Ge(mlBalance, 0) /\ Ge(Scale, mlBalance)
    /\ genPc > 0 => (Ge(genBalance, 0) /\ Ge(Scale, genBalance))

\* C24: in synthesizeAudio the energy and tone steps change nothing when the
\* mutated energy and the mutated spectralCentroid are both above 0: both
\* ratios are exactly 1 and the returned channels are the channels the
\* envelope stage (processOneShot or processLoopAudio) produced. For no
\* feature value at all, the non-numbers included, is the spectral ratio
\* above 1, so the high-frequency boost never runs.
C24_PostProcessingIdentity ==
  /\ \A x \in {NaN, PosInf, NegInf, -Scale, -1, 0, 1, Scale \div 4, Scale, 40 * Scale} :
       ~Gt(guardedSelfRatio(x), Scale)
  /\ (/\ probeInput # Null
      /\ probeInput.fn = "heap"
      /\ probeInput.step.op = "variation") =>
       LET buffer == probeInput.heap["buffer"]
           loop == isLikelyLoop([probeInput.heap["features"] EXCEPT
                                   !.significantPeaks = probeInput.heap[@]])
           mutated == [probeOutput["modified"] EXCEPT !.significantPeaks = probeOutput[@]]
       IN /\ ~Gt(spectralRatioOf(mutated), Scale)
          /\ (Gt(mutated.energy, 0) /\ Gt(mutated.spectralCentroid, 0)) =>
               /\ energyRatioOf(mutated) = Scale
               /\ spectralRatioOf(mutated) = Scale
               /\ \A c \in 0..(buffer.numberOfChannels - 1) :
                    probeOutput["newBuffer"].data[c] =
                      IF loop
                      THEN processLoopAudio(getChannelData(buffer, c), buffer.length,
                                            mutated)
                      ELSE processOneShot(getChannelData(buffer, c), buffer.length,
                                          mutated)

\* a one-shot with energy and zero crossings, varied in full: the features
\* have moved, the envelope stage has changed the samples
C24_Witness ==
  /\ probeInput # Null
  /\ probeInput.fn = "heap"
  /\ probeInput.step.op = "variation"
  /\ probeInput.step.amount = Scale
  /\ "mapped" \notin DOMAIN probeOutput
  /\ Gt(probeOutput["modified"].energy, 0)
  /\ Gt(probeOutput["modified"].spectralCentroid, 0)
  /\ probeOutput["modified"].energy # probeInput.heap["features"].energy
  /\ probeOutput["modified"].spectralCentroid # probeInput.heap["features"].spectralCentroid
  /\ probeOutput["newBuffer"] # probeInput.heap["buffer"]

\* C25: the buffer a processDelay call returns is the input copied to the
\* start plus, at the one offset delaySamples, the input scaled by
\* feedback^t for every tap t = 1..T the loop ran; nothing is written at
\* twice the delay or later multiples. This holds for the processDelay with
\* the tap counter and for the one without.
C25_AllTapsAtOneOffset ==
  (delayCall # Null /\ delayCall.done) =>
    LET len == delayCall.buffer.length
        d == delayCall.delaySamples
    IN \A c \in 0..(delayCall.buffer.numberOfChannels - 1) :
         \A k \in 0..(probeOutput.length - 1) :
           probeOutput.data[c][k] =
             Add(IF k < len THEN getChannelData(delayCall.buffer, c)[k] ELSE 0,
                 IF k - d >= 0 /\ k - d < len
                 THEN SumRange([t \in 1..delayCall.tapCount |->
                                  tapSample(getChannelData(delayCall.buffer, c)[k - d],
                                            delayCall.feedback, t)],
                               1, delayCall.tapCount)
                 ELSE 0)

\* the click delayed with feedback 0.5 by the processDelay without the tap
\* counter: six taps ran, the echo is there once, and silence at twice the
\* delay
C25_Witness ==
  /\ delayCall # Null
  /\ delayCall.done
  /\ delayCall.impl = "core"
  /\ delayCall.tapCount = 6
  /\ delayCall.buffer = DecodedSample("click")
  /\ probeOutput.data[0][ClickPos + delayCall.delaySamples] > Scale \div 2
  /\ probeOutput.data[0][ClickPos + 2 * delayCall.delaySamples] = 0

\* C26: modifyFeatures never flips a sign: each of attackTime, decayTime,
\* sustainLevel, releaseTime, spectralCentroid and energy that is at least 0
\* in the extracted FeatureSet is at least 0 in the mutated one, for every
\* amount in [0, 1], every focus and every draw.
C26_MutationKeepsSign ==
  (/\ probeInput # Null
   /\ probeInput.fn = "heap"
   /\ probeInput.step.op = "variation") =>
    LET features == probeInput.heap["features"]
        mutated == probeOutput["modified"]
    IN /\ Ge(features.attackTime, 0) => Ge(mutated.attackTime, 0)
       /\ Ge(features.decayTime, 0) => Ge(mutated.decayTime, 0)
       /\ Ge(features.sustainLevel, 0) => Ge(mutated.sustainLevel, 0)
       /\ Ge(features.releaseTime, 0) => Ge(mutated.releaseTime, 0)
       /\ Ge(features.spectralCentroid, 0) => Ge(mutated.spectralCentroid, 0)
       /\ Ge(features.energy, 0) => Ge(mutated.energy, 0)


C29_FailedLoadChangesOnlyError ==
  [][((\E file \in Files : loadAudioFileRejected(file))
      \/ (\E n \in 1..MaxCalls : loadAudioFileDecodeFailed(n))
      \/ (\E n \in 1..MaxCalls : loadAudioFileClassifyFailed(n)))
     => UNCHANGED <<originalSample, isLoop, variations>>]_vars

\* C30: while a loadAudioFile or generateVariations call has started and not
\* finished, isProcessing is true
C30_ProcessingWhileInFlight ==
  (client = "page" /\ (genPc > 0 \/ Len(loading) > 0)) => isProcessing

\* C28: at most one source is playing, and currentlyPlaying is non-null
\* exactly when playbackSource is non-null and is the only source playing
playingSources == {k \in 1..Len(audioSources) : audioSources[k].state = "playing"}

C28_OnePlayingAndTracked ==
  client = "page" =>
    /\ Cardinality(playingSources) <= 1
    /\ (currentlyPlaying # NoId) <=>
         (playbackSource # NoSource /\ playingSources = {playbackSource})

============================================================================
